---- MODULE Spec2Model ----
(***************************************************************************)
(* OpenProjectBot: the concurrent fetch-and-classify pipeline of           *)
(* OpenProjectService (internal/services/open_project.go, current          *)
(* revision): collectAndClassifyTasks (worker pool, producer, closer,      *)
(* merge loop), fetchWorkPackagesForUser (pagination), classifyTask and    *)
(* its keyword and date helpers.                                           *)
(*                                                                         *)
(* Go strings are modelled as sequences of Unicode code points; a          *)
(* time.Time is a pair (minutes since the Unix epoch, zone offset in       *)
(* minutes).  Seconds never change a calendar date and are dropped after   *)
(* validation.  A time.Location is a fixed offset.                         *)
(***************************************************************************)
EXTENDS Integers, Sequences, FiniteSets, TLC

VARIABLES
    \* ---- classifyTask applied to one task (pure-function specification)
    cStatus,      \* task.Links.Status.Title
    cUpd,         \* what the source stored as the task's update time
    cAsOf,        \* reportDate
    cCat,         \* "pending" or the category classifyTask returned
    \* ---- collectAndClassifyTasks
    runReportDate, \* reportDate := time.Now() of the run
    projectIDs,   \* s.opts.ProjectIDs
    assigneeIDs,  \* s.opts.AssigneeIDs
    cancelled,    \* ctx.Err() != nil
    mainPc,       \* "start" | "merge" | "returned"
    ret,          \* what collectAndClassifyTasks returned
    prodPc,       \* producer goroutine: "idle" | "select" | "done"
    prodIdx,      \* index (1-based) of the job the producer offers next
    jobsClosed,   \* close(jobsCh) has run
    workers,      \* worker goroutines: workerID -> record
    closerPc,     \* closer goroutine: "idle" | "wait" | "done"
    resultsClosed,\* close(resultsCh) has run
    allBacklog, allInProgress, allSent,  \* the merge loop's accumulators
    hist,         \* history of the run (observations only, never read by the code)
    \* ---- classification and calculateEmployeeStats of a report, without I/O
    sTasks,       \* the tasks of the report, as fetched
    sAsOf,        \* reportDate
    sBacklog, sInProgress, sSent,  \* the three classified lists
    sStats,       \* what calculateEmployeeStats returned
    sPc,          \* "idle" | "classify" | "summarize" | "done"
    \* ---- one call of fetchWorkPackagesForUser and the worker's use of it
    fBase,        \* s.opts.BaseURL
    fChain,       \* the pages the source holds for the job
    fCancelled,   \* ctx.Err() != nil
    fPc,          \* "idle" | "start" | "request" | "inflight" | "returned" | "used"
    fURL,         \* nextURL
    fAll,         \* all
    fRet,         \* what the call returned: [err, tasks]
    fForward,     \* what the worker sent on resultsCh for the job: no result or one
    fReqs,        \* the URLs requested, in order (observation)
    fFault,       \* what failed, if anything (observation)
    fAtCancel,    \* where the call stood when ctx was cancelled (observation)
    \* ---- the worker pool of collectAndClassifyTasks at its size in the
    \* source, the goroutines counted by position
    szProjects,   \* len(s.opts.ProjectIDs)
    szAssignees,  \* len(s.opts.AssigneeIDs)
    szCancelled,  \* ctx.Err() != nil
    szMainPc,     \* "idle" | "start" | "merge" | "returned"
    szStarted,    \* worker goroutines started so far
    szAt,         \* how many workers stand at each position
    szProdPc,     \* producer goroutine: "idle" | "select" | "exit" | "done"
    szSent,       \* jobs the producer has handed out
    szJobsClosed, \* close(jobsCh) has run
    szResultsClosed, \* close(resultsCh) has run
    \* ---- GenerateExcelReport around collectAndClassifyTasks
    repPc,        \* "collect" | "done"
    sinkCalls,    \* the calls of createExcelFile, with their arguments
    files,        \* the report files written
    repRet,       \* what GenerateExcelReport returned: [err, path]
    \* ---- consecutive report runs on one OpenProjectService
    rnJobs,       \* len(ProjectIDs) * len(AssigneeIDs) of the service
    rnPc,         \* "off" | "idle" | "merge"
    rnInput,      \* the run's asOf and what the source answers for each job
    rnCancelled,  \* the run's ctx.Err() != nil
    rnPending,    \* the jobs whose outcome has not reached the merge loop
    rnAll,        \* the merge loop's accumulators
    rnOut,        \* the last completed run: its input and what it returned
    rnCount,      \* completed runs, counted up to MaxRunsCounted
    \* ---- core.App: ApplyConfig and Shutdown
    apMu,         \* a.mu: 0 when free, else the goroutine that holds it
    apCancel,     \* a.servicesCancel: 0 for nil, else the generation it cancels
    apFields,     \* the generation a.tg, a.opSrv, a.dailyJob, a.adminSrv belong to
    apGens,       \* the generations made by context.WithCancel(a.rootCtx)
    apRoot,       \* a.rootCtx.Err() != nil
    apCallers,    \* the goroutines that call ApplyConfig and Shutdown
    \* ---- config.Manager: the OnConfigChange callback, OnChange, Current
    cfCfg,        \* *m.cfg, configurations named by the version of the file
    cfSubs,       \* m.subscribers
    cfPc,         \* the callback: "off" | "idle" | "unmarshal" | "validate" | "store" | "notify"
    cfNew,        \* newCfg: the version of the file and what is wrong with it
    cfSnap,       \* subs
    cfIdx,        \* the index of the range loop over subs (1-based)
    cfCalls,      \* the subscriber calls of the change being handled (observation)
    cfBefore,     \* *m.cfg when the change arrived (observation)
    cfChanges,    \* the changes of the file so far
    cfRead,       \* what Current() returned last
    \* ---- DailyJobService: Start and nextRunTime, instants in seconds
    jbLoc,        \* d.timezone
    jbHour,       \* d.hour
    jbMinute,     \* d.minute
    jbNow,        \* the clock: time.Now()
    jbPc,         \* "off" | "start" | "wait" | "stopped"
    jbAt,         \* time.Now() as the last call of nextRunTime read it
    jbNext,       \* nextRun
    jbSent,       \* calls of d.botServ.SendFile so far
    jbCancelled   \* ctx.Err() != nil

clsVars == <<cStatus, cUpd, cAsOf, cCat>>
sumVars == <<sTasks, sAsOf, sBacklog, sInProgress, sSent, sStats, sPc>>
fetchVars == <<fBase, fChain, fCancelled, fPc, fURL, fAll, fRet, fForward, fReqs, fFault,
              fAtCancel>>
sizeVars == <<szProjects, szAssignees, szCancelled, szMainPc, szStarted, szAt, szProdPc,
             szSent, szJobsClosed, szResultsClosed>>
poolVars == <<runReportDate, projectIDs, assigneeIDs, cancelled, mainPc, ret, prodPc, prodIdx,
              jobsClosed, workers, closerPc, resultsClosed,
              allBacklog, allInProgress, allSent, hist>>
vars == <<cStatus, cUpd, cAsOf, cCat, runReportDate, projectIDs, assigneeIDs, cancelled, mainPc,
          ret, prodPc, prodIdx, jobsClosed, workers, closerPc, resultsClosed,
          allBacklog, allInProgress, allSent, hist,
          sTasks, sAsOf, sBacklog, sInProgress, sSent, sStats, sPc,
          fBase, fChain, fCancelled, fPc, fURL, fAll, fRet, fForward, fReqs, fFault,
          fAtCancel,
          szProjects, szAssignees, szCancelled, szMainPc, szStarted, szAt, szProdPc,
          szSent, szJobsClosed, szResultsClosed,
          repPc, sinkCalls, files, repRet,
          rnJobs, rnPc, rnInput, rnCancelled, rnPending, rnAll, rnOut, rnCount,
          apMu, apCancel, apFields, apGens, apRoot, apCallers,
          cfCfg, cfSubs, cfPc, cfNew, cfSnap, cfIdx, cfCalls, cfBefore, cfChanges, cfRead,
          jbLoc, jbHour, jbMinute, jbNow, jbPc, jbAt, jbNext, jbSent, jbCancelled>>
reportVars == <<repPc, sinkCalls, files, repRet>>
runsVars == <<rnJobs, rnPc, rnInput, rnCancelled, rnPending, rnAll, rnOut, rnCount>>
appVars == <<apMu, apCancel, apFields, apGens, apRoot, apCallers>>
cfgVars == <<cfCfg, cfSubs, cfPc, cfNew, cfSnap, cfIdx, cfCalls, cfBefore, cfChanges, cfRead>>
jobVars == <<jbLoc, jbHour, jbMinute, jbNow, jbPc, jbAt, jbNext, jbSent, jbCancelled>>
moreVars == <<reportVars, runsVars, appVars, cfgVars, jobVars>>
oldVars == <<clsVars, sumVars, fetchVars, sizeVars, poolVars>>
\* everything but one part
exReportVars == <<oldVars, runsVars, appVars, cfgVars, jobVars>>
exRunsVars == <<oldVars, reportVars, appVars, cfgVars, jobVars>>
exAppVars == <<oldVars, reportVars, runsVars, cfgVars, jobVars>>
exCfgVars == <<oldVars, reportVars, runsVars, appVars, jobVars>>
exJobVars == <<oldVars, reportVars, runsVars, appVars, cfgVars>>

(***************************************************************************)
(* Strings                                                                 *)
(***************************************************************************)

\* unicode.ToLower on the scripts the status titles use: Latin A-Z,
\* Cyrillic U+0410..U+042F (+32) and U+0400..U+040F (+80).
ToLowerRune(c) ==
    IF c >= 65 /\ c <= 90 THEN c + 32
    ELSE IF c >= 1040 /\ c <= 1071 THEN c + 32
    ELSE IF c >= 1024 /\ c <= 1039 THEN c + 80
    ELSE c

\* strings.ToLower
ToLower(s) == [i \in 1..Len(s) |-> ToLowerRune(s[i])]

\* strings.Contains
Contains(s, sub) ==
    \E i \in 0..(Len(s) - Len(sub)) : \A k \in 1..Len(sub) : s[i + k] = sub[k]

\* strings.Index(s, sub) for a one-rune sub, 0-based; -1 when absent
IndexRune(s, c) ==
    IF \E i \in 1..Len(s) : s[i] = c
    THEN (CHOOSE i \in 1..Len(s) : s[i] = c /\ \A k \in 1..(i - 1) : s[k] # c) - 1
    ELSE -1

\* s[:n]
Prefix(s, n) == SubSeq(s, 1, n)

(***************************************************************************)
(* Status keyword families                                                 *)
(***************************************************************************)

\* "в процессе", "в работе", "in progress", "выполняется"
inProgressStatuses == <<
    <<1074, 32, 1087, 1088, 1086, 1094, 1077, 1089, 1089, 1077>>,
    <<1074, 32, 1088, 1072, 1073, 1086, 1090, 1077>>,
    <<105, 110, 32, 112, 114, 111, 103, 114, 101, 115, 115>>,
    <<1074, 1099, 1087, 1086, 1083, 1085, 1103, 1077, 1090, 1089, 1103>> >>

\* "готово к тесту", "тестирование", "на тесте", "передано на тесты"
testStatuses == <<
    <<1075, 1086, 1090, 1086, 1074, 1086, 32, 1082, 32, 1090, 1077, 1089, 1090, 1091>>,
    <<1090, 1077, 1089, 1090, 1080, 1088, 1086, 1074, 1072, 1085, 1080, 1077>>,
    <<1085, 1072, 32, 1090, 1077, 1089, 1090, 1077>>,
    <<1087, 1077, 1088, 1077, 1076, 1072, 1085, 1086, 32, 1085, 1072, 32, 1090,
      1077, 1089, 1090, 1099>> >>

\* "разработан", "в ветку разработки"
excluded == <<
    <<1088, 1072, 1079, 1088, 1072, 1073, 1086, 1090, 1072, 1085>>,
    <<1074, 32, 1074, 1077, 1090, 1082, 1091, 32, 1088, 1072, 1079, 1088, 1072,
      1073, 1086, 1090, 1082, 1080>> >>

containsStatus(status, statusList) ==
    LET lowerStatus == ToLower(status)
    IN  \E k \in 1..Len(statusList) : Contains(lowerStatus, ToLower(statusList[k]))

isInProgressStatus(status) == containsStatus(status, inProgressStatuses)

isSentToTestStatus(status) == containsStatus(status, testStatuses)

isExcludedFromBacklogStatus(status) == containsStatus(status, excluded)

taskCategoryBacklog == "backlog"
taskCategoryInProgress == "in_progress"
taskCategorySentToTestToday == "sent_to_test_today"
\* classifyTask's "" : the task goes to no list
taskCategoryNone == ""

(***************************************************************************)
(* Calendar arithmetic of package time (proleptic Gregorian calendar)      *)
(***************************************************************************)

IsLeap(y) == (y % 4 = 0 /\ y % 100 # 0) \/ y % 400 = 0

DaysIn(y, m) ==
    IF m = 2 THEN (IF IsLeap(y) THEN 29 ELSE 28)
    ELSE IF m \in {4, 6, 9, 11} THEN 30 ELSE 31

\* days since 1970-01-01 of the civil date y-m-d
DaysFromCivil(y, m, d) ==
    LET yy  == IF m <= 2 THEN y - 1 ELSE y
        era == yy \div 400
        yoe == yy - era * 400
        mp  == IF m > 2 THEN m - 3 ELSE m + 9
        doy == (153 * mp + 2) \div 5 + d - 1
        doe == yoe * 365 + yoe \div 4 - yoe \div 100 + doy
    IN  era * 146097 + doe - 719468

\* the civil date <<y, m, d>> of a day number
CivilFromDays(z0) ==
    LET z   == z0 + 719468
        era == z \div 146097
        doe == z - era * 146097
        yoe == (doe - doe \div 1460 + doe \div 36524 - doe \div 146096) \div 365
        doy == doe - (365 * yoe + yoe \div 4 - yoe \div 100)
        mp  == (5 * doy + 2) \div 153
        d   == doy - (153 * mp + 2) \div 5 + 1
        m   == IF mp < 10 THEN mp + 3 ELSE mp - 9
        y   == yoe + era * 400 + (IF m <= 2 THEN 1 ELSE 0)
    IN  <<y, m, d>>

\* a time.Time: the instant in minutes since the epoch and its Location
Time(unix, off) == [unix |-> unix, off |-> off]

\* t.UTC() in the place of t.In(loc)
In_UTC(t, off) == [unix |-> t.unix, off |-> 0]

\* t.In(loc)
In(t, off) == [unix |-> t.unix, off |-> off]

\* t.Location()
Location(t) == t.off

DigitRune(n) == 48 + n
Pad2(n) == <<DigitRune(n \div 10), DigitRune(n % 10)>>
Pad4(n) == <<DigitRune(n \div 1000), DigitRune((n \div 100) % 10),
             DigitRune((n \div 10) % 10), DigitRune(n % 10)>>

\* t.Format("2006-01-02"): the date of t on the wall clock of its Location
FormatDate(t) ==
    LET c == CivilFromDays((t.unix + t.off) \div 1440)
    IN  Pad4(c[1]) \o <<45>> \o Pad2(c[2]) \o <<45>> \o Pad2(c[3])

IsDigit(c) == c >= 48 /\ c <= 57
AllDigits(s, from, to) == \A i \in from..to : i <= Len(s) /\ IsDigit(s[i])
Num(s, from, to) ==
    LET RECURSIVE go(_, _)
        go(i, acc) == IF i > to THEN acc ELSE go(i + 1, acc * 10 + (s[i] - 48))
    IN  go(from, 0)

\* length of an optional fractional second ".ddd" that follows the seconds
FracLen(s) ==
    IF Len(s) >= 21 /\ s[20] = 46 /\ IsDigit(s[21])
    THEN 1 + Cardinality({i \in 21..Len(s) : \A k \in 21..i : IsDigit(s[k])})
    ELSE 0

\* time.Parse(time.RFC3339, s): layout "2006-01-02T15:04:05Z07:00".
\* [ok |-> FALSE] stands for a non-nil error.
ParseRFC3339(s) ==
    LET z == 20 + FracLen(s)
        shape ==
            /\ Len(s) >= z
            /\ AllDigits(s, 1, 4) /\ s[5] = 45
            /\ AllDigits(s, 6, 7) /\ s[8] = 45
            /\ AllDigits(s, 9, 10) /\ s[11] = 84
            /\ AllDigits(s, 12, 13) /\ s[14] = 58
            /\ AllDigits(s, 15, 16) /\ s[17] = 58
            /\ AllDigits(s, 18, 19)
            /\ \/ s[z] = 90 /\ Len(s) = z
               \/ /\ s[z] \in {43, 45} /\ Len(s) = z + 5
                  /\ AllDigits(s, z + 1, z + 2) /\ s[z + 3] = 58
                  /\ AllDigits(s, z + 4, z + 5)
    IN  IF ~shape THEN [ok |-> FALSE, t |-> Time(0, 0)]
        ELSE
          LET y  == Num(s, 1, 4)
              mo == Num(s, 6, 7)
              d  == Num(s, 9, 10)
              hh == Num(s, 12, 13)
              mi == Num(s, 15, 16)
              ss == Num(s, 18, 19)
              zh == IF s[z] = 90 THEN 0 ELSE Num(s, z + 1, z + 2)
              zm == IF s[z] = 90 THEN 0 ELSE Num(s, z + 4, z + 5)
              off == IF s[z] = 45 THEN 0 - (zh * 60 + zm) ELSE zh * 60 + zm
              inRange ==
                  /\ mo >= 1 /\ mo <= 12
                  /\ d >= 1 /\ d <= DaysIn(y, mo)
                  /\ hh <= 23 /\ mi <= 59 /\ ss <= 59
                  /\ zh <= 23 /\ zm <= 59
          IN  IF ~inRange THEN [ok |-> FALSE, t |-> Time(0, 0)]
              ELSE [ok |-> TRUE,
                    t  |-> Time(DaysFromCivil(y, mo, d) * 1440 + hh * 60 + mi - off, off)]

(***************************************************************************)
(* classifyTask                                                            *)
(***************************************************************************)

\* models.WorkPackage, the fields the pipeline reads
WorkPackage(id, status, assignee, updatedAt) ==
    [ID |-> id, Status |-> status, Assignee |-> assignee, UpdatedAt |-> updatedAt]

\* isSentToTestToday comparing the date of the timestamp in its own zone:
\* line 390 without .In(reportDate.Location())
isSentToTestToday_NoZone(task, reportDate) ==
    IF task.UpdatedAt = <<>> THEN FALSE
    ELSE IF ~isSentToTestStatus(task.Status) THEN FALSE
    ELSE
      LET layoutLen  == 10
          targetDate == FormatDate(reportDate)
          parsed     == ParseRFC3339(task.UpdatedAt)
          idx        == IndexRune(task.UpdatedAt, 84)
      IN  IF parsed.ok
          THEN FormatDate(parsed.t) = targetDate
          ELSE IF idx > 0
          THEN Prefix(task.UpdatedAt, idx) = targetDate
          ELSE IF Len(task.UpdatedAt) >= layoutLen
          THEN Prefix(task.UpdatedAt, layoutLen) = targetDate
          ELSE FALSE

isSentToTestToday(task, reportDate) ==
    IF task.UpdatedAt = <<>> THEN FALSE
    ELSE IF ~isSentToTestStatus(task.Status) THEN FALSE
    ELSE
      LET layoutLen  == 10
          targetDate == FormatDate(reportDate)
          parsed     == ParseRFC3339(task.UpdatedAt)
          idx        == IndexRune(task.UpdatedAt, 84)
      IN  IF parsed.ok
          THEN FormatDate(In(parsed.t, Location(reportDate))) = targetDate
          ELSE IF idx > 0
          THEN Prefix(task.UpdatedAt, idx) = targetDate
          ELSE IF Len(task.UpdatedAt) >= layoutLen
          THEN Prefix(task.UpdatedAt, layoutLen) = targetDate
          ELSE FALSE

\* classifyTask that drops the tasks without an assignee
classifyTask_SkipsUnassigned(task, reportDate) ==
    LET statusTitle == task.Status
    IN  IF statusTitle = <<>> \/ task.Assignee = <<>> THEN taskCategoryNone
        ELSE IF isSentToTestStatus(statusTitle)
        THEN (IF isSentToTestToday(task, reportDate)
              THEN taskCategorySentToTestToday
              ELSE taskCategoryNone)
        ELSE IF isInProgressStatus(statusTitle) THEN taskCategoryInProgress
        ELSE IF isExcludedFromBacklogStatus(statusTitle) THEN taskCategoryNone
        ELSE taskCategoryBacklog

\* classifyTask with rules 1 and 2 in the other order
classifyTask_InProgressFirst(task, reportDate) ==
    LET statusTitle == task.Status
    IN  IF statusTitle = <<>> THEN taskCategoryNone
        ELSE IF isInProgressStatus(statusTitle) THEN taskCategoryInProgress
        ELSE IF isSentToTestStatus(statusTitle)
        THEN (IF isSentToTestToday(task, reportDate)
              THEN taskCategorySentToTestToday
              ELSE taskCategoryNone)
        ELSE IF isExcludedFromBacklogStatus(statusTitle) THEN taskCategoryNone
        ELSE taskCategoryBacklog

\* classifyTask without its default bucket: rule 4 returns ""
classifyTask_NoDefault(task, reportDate) ==
    LET statusTitle == task.Status
    IN  IF statusTitle = <<>> THEN taskCategoryNone
        ELSE IF isSentToTestStatus(statusTitle)
        THEN (IF isSentToTestToday(task, reportDate)
              THEN taskCategorySentToTestToday
              ELSE taskCategoryNone)
        ELSE IF isInProgressStatus(statusTitle) THEN taskCategoryInProgress
        ELSE taskCategoryNone

\* classifyTask with rule 3 (excluded from backlog) before rule 2
classifyTask_ExcludedFirst(task, reportDate) ==
    LET statusTitle == task.Status
    IN  IF statusTitle = <<>> THEN taskCategoryNone
        ELSE IF isSentToTestStatus(statusTitle)
        THEN (IF isSentToTestToday(task, reportDate)
              THEN taskCategorySentToTestToday
              ELSE taskCategoryNone)
        ELSE IF isExcludedFromBacklogStatus(statusTitle) THEN taskCategoryNone
        ELSE IF isInProgressStatus(statusTitle) THEN taskCategoryInProgress
        ELSE taskCategoryBacklog

classifyTask(task, reportDate) ==
    LET statusTitle == task.Status
    IN  IF statusTitle = <<>> THEN taskCategoryNone
        ELSE IF isSentToTestStatus(statusTitle)
        THEN (IF isSentToTestToday(task, reportDate)
              THEN taskCategorySentToTestToday
              ELSE taskCategoryNone)
        ELSE IF isInProgressStatus(statusTitle) THEN taskCategoryInProgress
        ELSE IF isExcludedFromBacklogStatus(statusTitle) THEN taskCategoryNone
        ELSE taskCategoryBacklog

(***************************************************************************)
(* Inputs of classifyTask: status titles, update times as the source       *)
(* writes them, report dates                                               *)
(***************************************************************************)

\* how far the update dates range around the base date, in days
MaxDayShift == 1

\* 2024-06-01, so that the dates cross the end of a month
BaseDay == DaysFromCivil(2024, 6, 1)

Days == (BaseDay - MaxDayShift)..(BaseDay + MaxDayShift)

StatusTitles == {
    <<>>,
    \* "Готово к тесту"
    <<1043, 1086, 1090, 1086, 1074, 1086, 32, 1082, 32, 1090, 1077, 1089, 1090, 1091>>,
    \* "ТЕСТИРОВАНИЕ"
    <<1058, 1045, 1057, 1058, 1048, 1056, 1054, 1042, 1040, 1053, 1048, 1045>>,
    \* "В процессе"
    <<1042, 32, 1087, 1088, 1086, 1094, 1077, 1089, 1089, 1077>>,
    \* "In Progress"
    <<73, 110, 32, 80, 114, 111, 103, 114, 101, 115, 115>>,
    \* "New"
    <<78, 101, 119>>,
    \* "Новая"
    <<1053, 1086, 1074, 1072, 1103>>,
    \* "Разработан"
    <<1056, 1072, 1079, 1088, 1072, 1073, 1086, 1090, 1072, 1085>>,
    \* "На тесте / в работе": a sent-to-test and an in-progress keyword
    <<1053, 1072, 32, 1090, 1077, 1089, 1090, 1077, 32, 47, 32, 1074, 32, 1088,
      1072, 1073, 1086, 1090, 1077>>,
    \* "В работе (разработан)": an in-progress and an excluded keyword
    <<1042, 32, 1088, 1072, 1073, 1086, 1090, 1077, 32, 40, 1088, 1072, 1079,
      1088, 1072, 1073, 1086, 1090, 1072, 1085, 41>>,
    \* "Ready for test"
    <<82, 101, 97, 100, 121, 32, 102, 111, 114, 32, 116, 101, 115, 116>> }

\* What the source holds as a task's update time.  kind says how it is
\* written into updatedAt:
\*   "rfc"   2024-06-01T22:30:00+03:00 (Z for offset 0)
\*   "frac"  the same with milliseconds, 2024-06-01T22:30:00.123Z
\*   "naive" 2024-06-01T22:30       (no seconds, no zone)
\*   "date"  2024-06-01
\*   "junk"  n/a
\*   "none"  the empty string
UpdForms ==
    [kind : {"rfc"}, day : Days, min : {60, 600, 1350}, off : {0, 180, -300}]
    \cup [kind : {"frac"}, day : Days, min : {1350}, off : {0}]
    \cup [kind : {"naive", "date"}, day : Days, min : {600}, off : {0}]
    \cup [kind : {"junk", "none"}, day : {BaseDay}, min : {0}, off : {0}]

FormatClock(min) == Pad2(min \div 60) \o <<58>> \o Pad2(min % 60)

FormatZone(off) ==
    IF off = 0 THEN <<90>>
    ELSE (IF off < 0 THEN <<45>> ELSE <<43>>)
         \o Pad2((IF off < 0 THEN 0 - off ELSE off) \div 60) \o <<58>>
         \o Pad2((IF off < 0 THEN 0 - off ELSE off) % 60)

FormatDay(day) ==
    LET c == CivilFromDays(day)
    IN  Pad4(c[1]) \o <<45>> \o Pad2(c[2]) \o <<45>> \o Pad2(c[3])

\* the updatedAt string of the API response for an update time
UpdatedAtOf(u) ==
    CASE u.kind = "rfc" ->
            FormatDay(u.day) \o <<84>> \o FormatClock(u.min) \o <<58, 48, 48>>
            \o FormatZone(u.off)
      [] u.kind = "frac" ->
            FormatDay(u.day) \o <<84>> \o FormatClock(u.min)
            \o <<58, 48, 48, 46, 49, 50, 51>> \o FormatZone(u.off)
      [] u.kind = "naive" -> FormatDay(u.day) \o <<84>> \o FormatClock(u.min)
      [] u.kind = "date" -> FormatDay(u.day)
      [] u.kind = "junk" -> <<110, 47, 97>>
      [] OTHER -> <<>>

\* reportDate values: wall clock minute `min` of day `day` in zone `off`
AsOfAt(day, min, off) == Time(day * 1440 + min - off, off)

AsOfs == {AsOfAt(d, m, o) : d \in {BaseDay}, m \in {30, 720, 1410}, o \in {0, 180}}

(***************************************************************************)
(* Configuration and source responses of a collection run                  *)
(***************************************************************************)

\* the most jobs (projects times assignees) a run is explored with
MaxJobs == 4

\* the pool's size limit, 8 in the source (line 89), scaled down so that
\* runs with more jobs than workers are explored
defaultWorkers == 2

\* ids as configured in cmd/main
ProjectCatalog == <<"16", "19", "5">>
AssigneeCatalog == <<"15", "23", "22", "100", "21">>

\* display names of the assignees, by position in AssigneeCatalog:
\* "Alice", "" (no display name), "Bob", "Борис", "Alice"
AssigneeNames == <<
    <<65, 108, 105, 99, 101>>,
    <<>>,
    <<66, 111, 98>>,
    <<1041, 1086, 1088, 1080, 1089>>,
    <<65, 108, 105, 99, 101>> >>

IndexOf(seq, x) == CHOOSE i \in 1..Len(seq) : seq[i] = x

RunDates == {AsOfAt(BaseDay, 720, 0)}

\* status titles of the tasks the source returns:
\* "В процессе", "New", "Готово к тесту", "Разработан"
TitleInProgress == <<1042, 32, 1087, 1088, 1086, 1094, 1077, 1089, 1089, 1077>>
TitleNew == <<78, 101, 119>>
TitleReadyForTest ==
    <<1043, 1086, 1090, 1086, 1074, 1086, 32, 1082, 32, 1090, 1077, 1089, 1090, 1091>>
TitleDeveloped == <<1056, 1072, 1079, 1088, 1072, 1073, 1086, 1090, 1072, 1085>>

\* The responses of the source, as data: four shapes, each a sequence of
\* pages, each page the elements of one response written as
\* <<id, status title, day of the last update relative to the report's day>>.
\* Every page but the last carries a next link.
ResponseShapes == <<
    << << <<1, TitleInProgress, -1>>, <<2, TitleNew, -1>> >>,
       << <<3, TitleReadyForTest, 0>> >> >>,
    << << <<1, TitleDeveloped, 0>>, <<2, TitleReadyForTest, -1>> >> >>,
    << << <<1, TitleNew, 0>> >> >>,
    << <<>> >> >>

\* the updatedAt strings of the responses: 10:00 UTC of the report's day and
\* of the day before, written once
UpdatedAts ==
    {<<s, UpdatedAtOf([kind |-> "rfc", day |-> BaseDay + s, min |-> 600, off |-> 0])>> :
        s \in {-1, 0}}

UpdatedAtShifted(s) == (CHOOSE r \in UpdatedAts : r[1] = s)[2]

\* The pages the source serves for job (projectID, assigneeID): the shape is
\* taken by the position of the ids, the tasks are the assignee's.
SourcePages(projectID, assigneeID) ==
    LET i     == IndexOf(ProjectCatalog, projectID)
        j     == IndexOf(AssigneeCatalog, assigneeID)
        id0   == i * 100 + j * 10
        shape == ResponseShapes[(((i - 1) * 2 + (j - 1)) % 4) + 1]
    IN  [p \in 1..Len(shape) |->
            [e \in 1..Len(shape[p]) |->
                WorkPackage(id0 + shape[p][e][1], shape[p][e][2], AssigneeNames[j],
                            UpdatedAtShifted(shape[p][e][3]))]]

(***************************************************************************)
(* collectAndClassifyTasks                                                 *)
(***************************************************************************)

totalJobs == Len(projectIDs) * Len(assigneeIDs)

workerCount == IF totalJobs < defaultWorkers THEN totalJobs ELSE defaultWorkers

Jobs == 1..totalJobs

\* the k-th job the producer's nested loops emit
JobAt(k) ==
    [ProjectID  |-> projectIDs[((k - 1) \div Len(assigneeIDs)) + 1],
     AssigneeID |-> assigneeIDs[((k - 1) % Len(assigneeIDs)) + 1]]

PagesOf(k) == SourcePages(JobAt(k).ProjectID, JobAt(k).AssigneeID)

\* the elements of a sequence of pages, in page order
RECURSIVE Flatten(_)
Flatten(pages) ==
    IF pages = <<>> THEN <<>> ELSE Head(pages) \o Flatten(Tail(pages))

EmptyResult == [Backlog |-> <<>>, InProgress |-> <<>>, SentToTestToday |-> <<>>]

\* the elements of a sequence, as a set
Elems(list) == {list[n] : n \in 1..Len(list)}

\* every task the source can serve
SourceTasks ==
    UNION { Elems(Flatten(SourcePages(ProjectCatalog[i], AssigneeCatalog[j]))) :
            i \in 1..Len(ProjectCatalog), j \in 1..Len(AssigneeCatalog) }

(***************************************************************************)
(* Tasks and report dates of the reports that are classified and           *)
(* summarised without I/O                                                  *)
(***************************************************************************)

\* the most tasks a report without I/O is explored with
MaxTasks == 3

\* "Ready for test"
TitleReadyForTestEn == <<82, 101, 97, 100, 121, 32, 102, 111, 114, 32, 116, 101, 115, 116>>

\* "Alice", "Bob", "Al", "Борис"
NameAlice == <<65, 108, 105, 99, 101>>
NameBob == <<66, 111, 98>>
NameAl == <<65, 108>>
NameBoris == <<1041, 1086, 1088, 1080, 1089>>

\* "2024-06-01T10:00:00Z"
UpdJune1 == <<50, 48, 50, 52, 45, 48, 54, 45, 48, 49, 84, 49, 48, 58, 48, 48, 58, 48, 48, 90>>

TaskReadyEnAlice == WorkPackage(1, TitleReadyForTestEn, NameAlice, UpdJune1)
TaskReadyRuAlice == WorkPackage(2, TitleReadyForTest, NameAlice, UpdJune1)
TaskNewBob == WorkPackage(3, TitleNew, NameBob, UpdJune1)
TaskInProgressUnnamed == WorkPackage(4, TitleInProgress, <<>>, UpdJune1)
TaskInProgressBoris == WorkPackage(5, TitleInProgress, NameBoris, UpdJune1)
TaskNewAl == WorkPackage(6, TitleNew, NameAl, UpdJune1)

ScenarioTasks ==
    {TaskReadyEnAlice, TaskReadyRuAlice, TaskNewBob, TaskInProgressUnnamed,
     TaskInProgressBoris, TaskNewAl}

\* noon UTC of 2024-06-01 and of 2024-06-02
AsOfJune1 == AsOfAt(BaseDay, 720, 0)
AsOfJune2 == AsOfAt(BaseDay + 1, 720, 0)

ScenarioDates == {AsOfJune1, AsOfJune2}

Categories ==
    {taskCategoryNone, taskCategoryBacklog, taskCategoryInProgress,
     taskCategorySentToTestToday}

\* the (task, reportDate) pairs the runs and the reports classify
ClassifiedPairs == (SourceTasks \X RunDates) \cup (ScenarioTasks \X ScenarioDates)

\* classifyTask is pure: its value on each task and each report date is
\* computed once and looked up where line 161 calls it
CategoryTable == {<<x[1], x[2], classifyTask(x[1], x[2])>> : x \in ClassifiedPairs}

\* line 161: s.classifyTask(t, reportDate) for a task of the source
CategoryOf(t, d) == CHOOSE c \in Categories : <<t, d, c>> \in CategoryTable

\* lines 159-171: the worker's loop over the tasks of one job, each task
\* classified once and appended to the list of its category
\* a switch whose in-progress case falls through to the backlog case
RECURSIVE ClassifyInto_FallsThrough(_, _, _)
ClassifyInto_FallsThrough(res, tasks, date) ==
    IF tasks = <<>> THEN res
    ELSE LET t        == Head(tasks)
             category == CategoryOf(t, date)
         IN  ClassifyInto_FallsThrough(
                 CASE category = taskCategoryBacklog ->
                        [res EXCEPT !.Backlog = Append(@, t)]
                   [] category = taskCategoryInProgress ->
                        [res EXCEPT !.InProgress = Append(@, t), !.Backlog = Append(@, t)]
                   [] category = taskCategorySentToTestToday ->
                        [res EXCEPT !.SentToTestToday = Append(@, t)]
                   [] OTHER -> res,
                 Tail(tasks), date)

RECURSIVE ClassifyInto(_, _, _)
ClassifyInto(res, tasks, date) ==
    IF tasks = <<>> THEN res
    ELSE LET t        == Head(tasks)
             category == CategoryOf(t, date)
         IN  ClassifyInto(
                 CASE category = taskCategoryBacklog ->
                        [res EXCEPT !.Backlog = Append(@, t)]
                   [] category = taskCategoryInProgress ->
                        [res EXCEPT !.InProgress = Append(@, t)]
                   [] category = taskCategorySentToTestToday ->
                        [res EXCEPT !.SentToTestToday = Append(@, t)]
                   [] OTHER -> res,
                 Tail(tasks), date)

ResultOf(tasks, date) == ClassifyInto(EmptyResult, tasks, date)

\* a worker goroutine at `for j := range jobsCh`, holding nothing
WorkerAtRange == [pc |-> "range", job |-> 0, page |-> 0, all |-> <<>>, res |-> EmptyResult]

WorkerDone == [pc |-> "done", job |-> 0, page |-> 0, all |-> <<>>, res |-> EmptyResult]

Ret(err, backlog, inProgress, sentToTestToday) ==
    [err |-> err, backlog |-> backlog, inProgress |-> inProgress,
     sentToTestToday |-> sentToTestToday]

NoRet == Ret("none", <<>>, <<>>, <<>>)

\* some job is still to be handed out, or a worker holds one
JobsPending ==
    \/ prodPc = "select"
    \/ \E w \in DOMAIN workers : workers[w].pc \in {"check", "fetch", "http", "send"}

HistInit(n) ==
    [recv        |-> [k \in 1..n |-> 0],
     fetchCalls  |-> [k \in 1..n |-> 0],
     requests    |-> [k \in 1..n |-> <<>>],
     fetchOK     |-> {},
     fetchErr    |-> {},
     cancelPhase |-> "none",
     queuedAtCancel |-> {}]

InitClassifyIdle ==
    /\ cStatus = <<>>
    /\ cUpd = [kind |-> "none", day |-> BaseDay, min |-> 0, off |-> 0]
    /\ cAsOf = AsOfAt(BaseDay, 720, 0)
    /\ cCat = "pending"

InitSummaryIdle ==
    /\ sTasks = <<>>
    /\ sAsOf = AsOfAt(BaseDay, 720, 0)
    /\ sBacklog = <<>>
    /\ sInProgress = <<>>
    /\ sSent = <<>>
    /\ sStats = <<>>
    /\ sPc = "idle"

\* "http://op"
SourceBase == <<104, 116, 116, 112, 58, 47, 47, 111, 112>>

NoFetchRet == [err |-> "none", tasks |-> <<>>]

\* ctx has not been cancelled during the call
NotCancelledYet == [pc |-> "none", reqs |-> 0, all |-> <<>>]

InitFetchIdle ==
    /\ fBase = SourceBase
    /\ fChain = <<>>
    /\ fCancelled = FALSE
    /\ fPc = "idle"
    /\ fURL = <<>>
    /\ fAll = <<>>
    /\ fRet = NoFetchRet
    /\ fForward = <<>>
    /\ fReqs = <<>>
    /\ fFault = "none"
    /\ fAtCancel = NotCancelledYet

\* no worker anywhere
NoWorkers == [range |-> 0, check |-> 0, fetch |-> 0, send |-> 0, done |-> 0]

InitSizeWith(np, na, pc) ==
    /\ szProjects = np
    /\ szAssignees = na
    /\ szCancelled = FALSE
    /\ szMainPc = pc
    /\ szStarted = 0
    /\ szAt = NoWorkers
    /\ szProdPc = "idle"
    /\ szSent = 0
    /\ szJobsClosed = FALSE
    /\ szResultsClosed = FALSE

InitSizeIdle == InitSizeWith(0, 0, "idle")

\* GenerateExcelReport has not returned; the path "" is the empty sequence
NoReport == [err |-> "none", path |-> <<>>]

\* no run yet: no input, nothing returned
NoInput == [asOf |-> AsOfAt(BaseDay, 720, 0), responses |-> <<>>]

NoRun ==
    [input |-> NoInput, err |-> "none", backlog |-> <<>>, inProgress |-> <<>>,
     sentToTestToday |-> <<>>, stats |-> <<>>]

InitRunsWith(n, pc) ==
    /\ rnJobs = n
    /\ rnPc = pc
    /\ rnInput = NoInput
    /\ rnCancelled = FALSE
    /\ rnPending = {}
    /\ rnAll = EmptyResult
    /\ rnOut = NoRun
    /\ rnCount = 0

InitRunsIdle == InitRunsWith(0, "off")

\* a goroutine that is in neither ApplyConfig nor Shutdown
CallerIdle == [pc |-> "idle", op |-> "none", cfg |-> "none", gen |-> 0, ret |-> "none"]

InitAppWith(n) ==
    /\ apMu = 0
    /\ apCancel = 0
    /\ apFields = 0
    /\ apGens = <<>>
    /\ apRoot = FALSE
    /\ apCallers = [c \in 1..n |-> CallerIdle]

InitAppIdle == InitAppWith(0)

\* the configuration file as NewManager loaded it: version 0, valid
LoadedConfig == [version |-> 0, fault |-> "none"]

InitCfgWith(pc) ==
    /\ cfCfg = 0
    /\ cfSubs = <<>>
    /\ cfPc = pc
    /\ cfNew = LoadedConfig
    /\ cfSnap = <<>>
    /\ cfIdx = 1
    /\ cfCalls = <<>>
    /\ cfBefore = 0
    /\ cfChanges = 0
    /\ cfRead = 0

InitCfgIdle == InitCfgWith("off")

\* a time.Location with at most one change of offset: `before` seconds
\* east of UTC up to the instant `at`, `after` from then on
LocationOf(before, after, at) == [before |-> before, after |-> after, at |-> at]

\* time.UTC
LocUTC == LocationOf(0, 0, 0)

InitJobIdle ==
    /\ jbLoc = LocUTC
    /\ jbHour = 0
    /\ jbMinute = 0
    /\ jbNow = 0
    /\ jbPc = "off"
    /\ jbAt = 0
    /\ jbNext = 0
    /\ jbSent = 0
    /\ jbCancelled = FALSE

\* the parts of the program that a specification of one part leaves idle
InitNewIdle == InitRunsIdle /\ InitAppIdle /\ InitCfgIdle /\ InitJobIdle

InitReport ==
    /\ repPc = "collect"
    /\ sinkCalls = <<>>
    /\ files = {}
    /\ repRet = NoReport

InitPoolWith(pids, uids, date) ==
    /\ InitNewIdle
    /\ InitReport
    /\ runReportDate = date
    /\ projectIDs = pids
    /\ assigneeIDs = uids
    /\ cancelled = FALSE
    /\ mainPc = "start"
    /\ ret = NoRet
    /\ prodPc = "idle"
    /\ prodIdx = 1
    /\ jobsClosed = FALSE
    /\ workers = <<>>
    /\ closerPc = "idle"
    /\ resultsClosed = FALSE
    /\ allBacklog = <<>>
    /\ allInProgress = <<>>
    /\ allSent = <<>>
    /\ hist = HistInit(Len(pids) * Len(uids))

\* the pipeline and its parts, idle
InitOldIdle ==
    /\ InitClassifyIdle
    /\ InitSummaryIdle
    /\ InitFetchIdle
    /\ InitSizeIdle
    /\ InitReport
    /\ runReportDate = AsOfAt(BaseDay, 720, 0)
    /\ projectIDs = <<>>
    /\ assigneeIDs = <<>>
    /\ cancelled = FALSE
    /\ mainPc = "start"
    /\ ret = NoRet
    /\ prodPc = "idle"
    /\ prodIdx = 1
    /\ jobsClosed = FALSE
    /\ workers = <<>>
    /\ closerPc = "idle"
    /\ resultsClosed = FALSE
    /\ allBacklog = <<>>
    /\ allInProgress = <<>>
    /\ allSent = <<>>
    /\ hist = HistInit(0)

Init ==
    /\ InitClassifyIdle
    /\ InitSummaryIdle
    /\ InitFetchIdle
    /\ InitSizeIdle
    /\ \E np \in 0..Len(ProjectCatalog), na \in 0..Len(AssigneeCatalog),
          date \in RunDates :
          /\ np * na <= MaxJobs
          /\ InitPoolWith(SubSeq(ProjectCatalog, 1, np), SubSeq(AssigneeCatalog, 1, na),
                          date)

\* ctx is cancelled by its owner (a shutdown, a configuration reload)
Cancel ==
    /\ ~cancelled
    /\ mainPc # "returned"
    /\ cancelled' = TRUE
    /\ hist' = [hist EXCEPT
          !.cancelPhase = IF mainPc = "start" THEN "before_call"
                          ELSE IF JobsPending THEN "pending" ELSE "drained",
          !.queuedAtCancel = IF mainPc = "start" THEN Jobs
                             ELSE IF prodPc = "select" THEN prodIdx..totalJobs
                             ELSE {}]
    /\ UNCHANGED <<moreVars, clsVars, sumVars, fetchVars, sizeVars, runReportDate, projectIDs, assigneeIDs, mainPc, ret,
                   prodPc, prodIdx, jobsClosed, workers, closerPc, resultsClosed,
                   allBacklog, allInProgress, allSent>>

\* Call without the totalJobs == 0 check of lines 123-125
Call_NoEmptyCheck ==
    /\ mainPc = "start"
    /\ mainPc' = "merge"
    /\ workers' = [w \in 1..workerCount |-> WorkerAtRange]
    /\ prodPc' = IF prodIdx <= totalJobs THEN "select" ELSE "exit"
    /\ closerPc' = "wait"
    /\ UNCHANGED <<moreVars, clsVars, sumVars, fetchVars, sizeVars, runReportDate, projectIDs, assigneeIDs, cancelled, ret,
                   prodIdx, jobsClosed, resultsClosed,
                   allBacklog, allInProgress, allSent, hist>>

\* lines 119-205: the channels are made, the empty job set is refused, the
\* workers, the producer and the closer are started
Call ==
    /\ mainPc = "start"
    /\ IF totalJobs = 0
       THEN /\ mainPc' = "returned"
            /\ ret' = Ret("config", <<>>, <<>>, <<>>)
            /\ UNCHANGED <<workers, prodPc, closerPc>>
       ELSE /\ mainPc' = "merge"
            /\ workers' = [w \in 1..workerCount |-> WorkerAtRange]
            /\ prodPc' = IF prodIdx <= totalJobs THEN "select" ELSE "exit"
            /\ closerPc' = "wait"
            /\ ret' = ret
    /\ UNCHANGED <<moreVars, clsVars, sumVars, fetchVars, sizeVars, runReportDate, projectIDs, assigneeIDs, cancelled,
                   prodIdx, jobsClosed, resultsClosed,
                   allBacklog, allInProgress, allSent, hist>>

\* a producer that offers the job it has just sent once more
ProducerSend_NoAdvance(w) ==
    /\ prodPc = "select"
    /\ w \in DOMAIN workers
    /\ workers[w].pc = "range"
    /\ workers' = [workers EXCEPT ![w] = [@ EXCEPT !.pc = "check", !.job = prodIdx]]
    /\ hist' = [hist EXCEPT !.recv[prodIdx] = @ + 1]
    /\ UNCHANGED <<moreVars, clsVars, sumVars, fetchVars, sizeVars, runReportDate, projectIDs, assigneeIDs, cancelled,
                   mainPc, ret, prodPc, prodIdx, jobsClosed, closerPc, resultsClosed,
                   allBacklog, allInProgress, allSent>>

\* line 195: the producer's send meets worker w's receive at line 141
\* (jobsCh is unbuffered)
ProducerSend(w) ==
    /\ prodPc = "select"
    /\ w \in DOMAIN workers
    /\ workers[w].pc = "range"
    /\ workers' = [workers EXCEPT ![w] = [@ EXCEPT !.pc = "check", !.job = prodIdx]]
    /\ prodIdx' = prodIdx + 1
    /\ prodPc' = IF prodIdx + 1 <= totalJobs THEN "select" ELSE "exit"
    /\ hist' = [hist EXCEPT !.recv[prodIdx] = @ + 1]
    /\ UNCHANGED <<moreVars, clsVars, sumVars, fetchVars, sizeVars, runReportDate, projectIDs, assigneeIDs, cancelled,
                   mainPc, ret, jobsClosed, closerPc, resultsClosed,
                   allBacklog, allInProgress, allSent>>

\* the producer's select without the <-ctx.Done() case: a plain send
ProducerCtxDone_Missing ==
    /\ FALSE
    /\ UNCHANGED vars

\* lines 193-194: the producer's select takes <-ctx.Done() and returns
ProducerCtxDone ==
    /\ prodPc = "select"
    /\ cancelled
    /\ prodPc' = "exit"
    /\ UNCHANGED <<moreVars, clsVars, sumVars, fetchVars, sizeVars, runReportDate, projectIDs, assigneeIDs, cancelled,
                   mainPc, ret, prodIdx, jobsClosed, workers, closerPc,
                   resultsClosed, allBacklog, allInProgress, allSent, hist>>

\* a producer that returns without close(jobsCh)
ProducerExit_NoClose ==
    /\ prodPc = "exit"
    /\ prodPc' = "done"
    /\ UNCHANGED <<moreVars, clsVars, sumVars, fetchVars, sizeVars, runReportDate, projectIDs, assigneeIDs,
                   cancelled, mainPc, ret, prodIdx, jobsClosed, workers, closerPc,
                   resultsClosed, allBacklog, allInProgress, allSent, hist>>

\* line 188: the producer's deferred close(jobsCh)
ProducerExit ==
    /\ prodPc = "exit"
    /\ prodPc' = "done"
    /\ jobsClosed' = TRUE
    /\ UNCHANGED <<moreVars, clsVars, sumVars, fetchVars, sizeVars, runReportDate, projectIDs, assigneeIDs, cancelled,
                   mainPc, ret, prodIdx, workers, closerPc, resultsClosed,
                   allBacklog, allInProgress, allSent, hist>>

\* a worker that closes resultsCh itself when it leaves the range loop
WorkerRangeEnd_ClosesResults(w) ==
    /\ w \in DOMAIN workers
    /\ workers[w].pc = "range"
    /\ jobsClosed
    /\ workers' = [workers EXCEPT ![w] = WorkerDone]
    /\ resultsClosed' = TRUE
    /\ UNCHANGED <<moreVars, clsVars, sumVars, fetchVars, sizeVars, runReportDate, projectIDs, assigneeIDs, cancelled,
                   mainPc, ret, prodPc, prodIdx, jobsClosed, closerPc,
                   allBacklog, allInProgress, allSent, hist>>

\* line 141: range jobsCh ends on the closed channel; deferred wg.Done()
WorkerRangeEnd(w) ==
    /\ w \in DOMAIN workers
    /\ workers[w].pc = "range"
    /\ jobsClosed
    /\ workers' = [workers EXCEPT ![w] = WorkerDone]
    /\ UNCHANGED <<moreVars, clsVars, sumVars, fetchVars, sizeVars, runReportDate, projectIDs, assigneeIDs, cancelled,
                   mainPc, ret, prodPc, prodIdx, jobsClosed, closerPc,
                   resultsClosed, allBacklog, allInProgress, allSent, hist>>

\* a worker that calls fetchWorkPackagesForUser without polling ctx.Done()
WorkerCheckCtx_NoPoll(w) ==
    /\ w \in DOMAIN workers
    /\ workers[w].pc = "check"
    /\ workers' = [workers EXCEPT ![w] = [@ EXCEPT !.pc = "fetch", !.page = 1, !.all = <<>>]]
    /\ hist' = [hist EXCEPT !.fetchCalls[workers[w].job] = @ + 1]
    /\ UNCHANGED <<moreVars, clsVars, sumVars, fetchVars, sizeVars, runReportDate, projectIDs, assigneeIDs, cancelled,
                   mainPc, ret, prodPc, prodIdx, jobsClosed, closerPc,
                   resultsClosed, allBacklog, allInProgress, allSent>>

\* lines 142-148: with a job in hand the worker polls ctx.Done(); it returns,
\* or calls fetchWorkPackagesForUser
WorkerCheckCtx(w) ==
    /\ w \in DOMAIN workers
    /\ workers[w].pc = "check"
    /\ IF cancelled
       THEN /\ workers' = [workers EXCEPT ![w] = WorkerDone]
            /\ hist' = hist
       ELSE /\ workers' = [workers EXCEPT ![w] =
                             [@ EXCEPT !.pc = "fetch", !.page = 1, !.all = <<>>]]
            /\ hist' = [hist EXCEPT !.fetchCalls[workers[w].job] = @ + 1]
    /\ UNCHANGED <<moreVars, clsVars, sumVars, fetchVars, sizeVars, runReportDate, projectIDs, assigneeIDs, cancelled,
                   mainPc, ret, prodPc, prodIdx, jobsClosed, closerPc,
                   resultsClosed, allBacklog, allInProgress, allSent>>

\* a failed fetch whose pages read so far are classified and forwarded
FetchFailed_ForwardsPartial(w, h) ==
    LET res == ResultOf(workers[w].all, runReportDate)
    IN  /\ workers' = [workers EXCEPT ![w] =
              IF res = EmptyResult THEN WorkerAtRange
              ELSE [@ EXCEPT !.pc = "send", !.page = 0, !.all = <<>>, !.res = res]]
        /\ hist' = [h EXCEPT !.fetchErr = @ \cup {workers[w].job}]

\* a failed fetch that is started again from the first page
FetchFailed_Retries(w, h) ==
    /\ workers' = [workers EXCEPT ![w] = [@ EXCEPT !.pc = "fetch", !.page = 1, !.all = <<>>]]
    /\ hist' = [h EXCEPT !.fetchErr = @ \cup {workers[w].job},
                         !.fetchCalls[workers[w].job] = @ + 1]

\* lines 149-157: fetchWorkPackagesForUser returned an error; the job is
\* logged and skipped (h is the history up to the return)
FetchFailed(w, h) ==
    /\ workers' = [workers EXCEPT ![w] = WorkerAtRange]
    /\ hist' = [h EXCEPT !.fetchErr = @ \cup {workers[w].job}]

\* the history with worker w's request for the page it stands at
Requested(w) ==
    [hist EXCEPT !.requests[workers[w].job] = Append(@, workers[w].page)]

\* lines 251-267: the request for the next page is made; with ctx already
\* cancelled client.Do fails at once, otherwise the request is in flight
WorkerDoRequest(w) ==
    /\ w \in DOMAIN workers
    /\ workers[w].pc = "fetch"
    /\ IF cancelled
       THEN FetchFailed(w, Requested(w))
       ELSE /\ workers' = [workers EXCEPT ![w] = [@ EXCEPT !.pc = "http"]]
            /\ hist' = Requested(w)
    /\ UNCHANGED <<moreVars, clsVars, sumVars, fetchVars, sizeVars, runReportDate, projectIDs, assigneeIDs, cancelled,
                   mainPc, ret, prodPc, prodIdx, jobsClosed, closerPc,
                   resultsClosed, allBacklog, allInProgress, allSent>>

\* lines 262-282: the request in flight fails (transport error, timeout,
\* cancellation, status other than 200, undecodable body)
WorkerResponseErr(w) ==
    /\ w \in DOMAIN workers
    /\ workers[w].pc = "http"
    /\ FetchFailed(w, hist)
    /\ UNCHANGED <<moreVars, clsVars, sumVars, fetchVars, sizeVars, runReportDate, projectIDs, assigneeIDs, cancelled,
                   mainPc, ret, prodPc, prodIdx, jobsClosed, closerPc,
                   resultsClosed, allBacklog, allInProgress, allSent>>

\* a worker that sends its result whether it is empty or not
AfterFetch_ForwardsEmpty(w, tasks) ==
    LET res == ResultOf(tasks, runReportDate)
    IN  /\ workers' = [workers EXCEPT ![w] =
              [@ EXCEPT !.pc = "send", !.page = 0, !.all = <<>>, !.res = res]]
        /\ hist' = [hist EXCEPT !.fetchOK = @ \cup {workers[w].job}]

\* lines 159-181 after a successful fetch: classify, skip an empty result,
\* otherwise go to the send on resultsCh
AfterFetch(w, tasks) ==
    LET res == ResultOf(tasks, runReportDate)
    IN  /\ workers' = [workers EXCEPT ![w] =
              IF Len(res.Backlog) = 0 /\ Len(res.InProgress) = 0
                 /\ Len(res.SentToTestToday) = 0
              THEN WorkerAtRange
              ELSE [@ EXCEPT !.pc = "send", !.page = 0, !.all = <<>>, !.res = res]]
        /\ hist' = [hist EXCEPT !.fetchOK = @ \cup {workers[w].job}]

\* lines 269-291: a 200 response is decoded and appended; the next link is
\* followed, or the loop ends and the fetch returns all
WorkerResponseOK(w) ==
    /\ w \in DOMAIN workers
    /\ workers[w].pc = "http"
    /\ LET pages == PagesOf(workers[w].job)
           p     == workers[w].page
           all   == workers[w].all \o pages[p]
       IN  IF p < Len(pages)
           THEN /\ workers' = [workers EXCEPT ![w] =
                                 [@ EXCEPT !.pc = "fetch", !.page = p + 1, !.all = all]]
                /\ hist' = hist
           ELSE AfterFetch(w, all)
    /\ UNCHANGED <<moreVars, clsVars, sumVars, fetchVars, sizeVars, runReportDate, projectIDs, assigneeIDs, cancelled,
                   mainPc, ret, prodPc, prodIdx, jobsClosed, closerPc,
                   resultsClosed, allBacklog, allInProgress, allSent>>

\* a merge that keeps only the lists of the result received last
WorkerSend_Overwrites(w) ==
    /\ w \in DOMAIN workers
    /\ workers[w].pc = "send"
    /\ mainPc = "merge"
    /\ ~resultsClosed
    /\ allBacklog' = workers[w].res.Backlog
    /\ allInProgress' = workers[w].res.InProgress
    /\ allSent' = workers[w].res.SentToTestToday
    /\ workers' = [workers EXCEPT ![w] = WorkerAtRange]
    /\ UNCHANGED <<moreVars, clsVars, sumVars, fetchVars, sizeVars, runReportDate, projectIDs, assigneeIDs, cancelled,
                   mainPc, ret, prodPc, prodIdx, jobsClosed, closerPc,
                   resultsClosed, hist>>

\* a merge that keeps the first result it receives and drops the later ones
WorkerSend_FirstWins(w) ==
    /\ w \in DOMAIN workers
    /\ workers[w].pc = "send"
    /\ mainPc = "merge"
    /\ ~resultsClosed
    /\ LET first == allBacklog = <<>> /\ allInProgress = <<>> /\ allSent = <<>>
       IN  /\ allBacklog' = IF first THEN workers[w].res.Backlog ELSE allBacklog
           /\ allInProgress' = IF first THEN workers[w].res.InProgress ELSE allInProgress
           /\ allSent' = IF first THEN workers[w].res.SentToTestToday ELSE allSent
    /\ workers' = [workers EXCEPT ![w] = WorkerAtRange]
    /\ UNCHANGED <<moreVars, clsVars, sumVars, fetchVars, sizeVars, runReportDate, projectIDs, assigneeIDs, cancelled,
                   mainPc, ret, prodPc, prodIdx, jobsClosed, closerPc,
                   resultsClosed, hist>>

\* line 180 meets lines 209-213: worker w's send on the unbuffered resultsCh
\* is received by the merge loop, which appends the three lists
WorkerSend(w) ==
    /\ w \in DOMAIN workers
    /\ workers[w].pc = "send"
    /\ mainPc = "merge"
    /\ ~resultsClosed
    /\ allBacklog' = allBacklog \o workers[w].res.Backlog
    /\ allInProgress' = allInProgress \o workers[w].res.InProgress
    /\ allSent' = allSent \o workers[w].res.SentToTestToday
    /\ workers' = [workers EXCEPT ![w] = WorkerAtRange]
    /\ UNCHANGED <<moreVars, clsVars, sumVars, fetchVars, sizeVars, runReportDate, projectIDs, assigneeIDs, cancelled,
                   mainPc, ret, prodPc, prodIdx, jobsClosed, closerPc,
                   resultsClosed, hist>>

\* lines 178-179: the worker's select takes <-ctx.Done() and returns
WorkerSendCtxDone(w) ==
    /\ w \in DOMAIN workers
    /\ workers[w].pc = "send"
    /\ cancelled
    /\ workers' = [workers EXCEPT ![w] = WorkerDone]
    /\ UNCHANGED <<moreVars, clsVars, sumVars, fetchVars, sizeVars, runReportDate, projectIDs, assigneeIDs, cancelled,
                   mainPc, ret, prodPc, prodIdx, jobsClosed, closerPc,
                   resultsClosed, allBacklog, allInProgress, allSent, hist>>

\* wg.Wait() returns: every worker has run its deferred wg.Done()
AllWorkersDone == \A w \in DOMAIN workers : workers[w].pc = "done"

\* the closer without wg.Wait()
CloserClose_NoWait ==
    /\ closerPc = "wait"
    /\ closerPc' = "done"
    /\ resultsClosed' = TRUE
    /\ UNCHANGED <<moreVars, clsVars, sumVars, fetchVars, sizeVars, runReportDate, projectIDs, assigneeIDs, cancelled,
                   mainPc, ret, prodPc, prodIdx, jobsClosed, workers,
                   allBacklog, allInProgress, allSent, hist>>

\* lines 202-205: the closer
CloserClose ==
    /\ closerPc = "wait"
    /\ AllWorkersDone
    /\ closerPc' = "done"
    /\ resultsClosed' = TRUE
    /\ UNCHANGED <<moreVars, clsVars, sumVars, fetchVars, sizeVars, runReportDate, projectIDs, assigneeIDs, cancelled,
                   mainPc, ret, prodPc, prodIdx, jobsClosed, workers,
                   allBacklog, allInProgress, allSent, hist>>

\* MainReturn without the ctx.Err() check of lines 215-217
MainReturn_NoCtxCheck ==
    /\ mainPc = "merge"
    /\ resultsClosed
    /\ mainPc' = "returned"
    /\ ret' = Ret("nil", allBacklog, allInProgress, allSent)
    /\ UNCHANGED <<moreVars, clsVars, sumVars, fetchVars, sizeVars, runReportDate, projectIDs, assigneeIDs, cancelled,
                   prodPc, prodIdx, jobsClosed, workers, closerPc, resultsClosed,
                   allBacklog, allInProgress, allSent, hist>>

\* lines 209, 215-219: range resultsCh ends on the closed channel
MainReturn ==
    /\ mainPc = "merge"
    /\ resultsClosed
    /\ mainPc' = "returned"
    /\ ret' = IF cancelled
              THEN Ret("canceled", <<>>, <<>>, <<>>)
              ELSE Ret("nil", allBacklog, allInProgress, allSent)
    /\ UNCHANGED <<moreVars, clsVars, sumVars, fetchVars, sizeVars, runReportDate, projectIDs, assigneeIDs, cancelled,
                   prodPc, prodIdx, jobsClosed, workers, closerPc, resultsClosed,
                   allBacklog, allInProgress, allSent, hist>>

(***************************************************************************)
(* calculateEmployeeStats                                                  *)
(***************************************************************************)

\* models.EmployeeStats
EmployeeStats(name, inProgress, sentToTestToday, backlog) ==
    [Name |-> name, InProgress |-> inProgress, SentToTestToday |-> sentToTestToday,
     Backlog |-> backlog]

\* the UTF-8 bytes of a code point below U+10000
UTF8Rune(c) ==
    IF c < 128 THEN <<c>>
    ELSE IF c < 2048 THEN <<192 + (c \div 64), 128 + (c % 64)>>
    ELSE <<224 + (c \div 4096), 128 + ((c \div 64) % 64), 128 + (c % 64)>>

\* a Go string in memory: the UTF-8 bytes of its code points
RECURSIVE UTF8(_)
UTF8(s) == IF s = <<>> THEN <<>> ELSE UTF8Rune(Head(s)) \o UTF8(Tail(s))

\* a < b on Go strings: byte-wise lexicographic
StringLess(a, b) ==
    LET x == UTF8(a)
        y == UTF8(b)
    IN  \E k \in 1..(Len(x) + 1) :
            /\ \A i \in 1..(k - 1) : i <= Len(y) /\ x[i] = y[i]
            /\ IF k > Len(x) THEN Len(y) >= k
               ELSE k <= Len(y) /\ x[k] < y[k]

\* ensure without the name == "" test of lines 411-413
ensure_NoEmptyCheck(statsMap, name) ==
    IF name \in DOMAIN statsMap THEN statsMap
    ELSE statsMap @@ (name :> EmployeeStats(name, 0, 0, 0))

\* lines 410-418: the closure ensure, as the map it leaves; it returns nil
\* for the empty name and the row of the name otherwise
ensure(statsMap, name) ==
    IF name = <<>> THEN statsMap
    ELSE IF name \in DOMAIN statsMap THEN statsMap
    ELSE statsMap @@ (name :> EmployeeStats(name, 0, 0, 0))

\* a counting loop that stores 1 instead of incrementing
RECURSIVE CountInto_SetsOne(_, _, _)
CountInto_SetsOne(statsMap, tasks, field) ==
    IF tasks = <<>> THEN statsMap
    ELSE LET name == Head(tasks).Assignee
             m    == ensure(statsMap, name)
         IN  CountInto_SetsOne(IF name \in DOMAIN m
                               THEN [m EXCEPT ![name] = [@ EXCEPT ![field] = 1]]
                               ELSE m,
                               Tail(tasks), field)

\* one of the loops at lines 420-436: for each task of the list, the row of
\* its assignee is ensured and, unless ensure returned nil, its counter
\* `field` is incremented
RECURSIVE CountInto(_, _, _)
CountInto(statsMap, tasks, field) ==
    IF tasks = <<>> THEN statsMap
    ELSE LET name == Head(tasks).Assignee
             m    == ensure(statsMap, name)
         IN  CountInto(IF name \in DOMAIN m
                       THEN [m EXCEPT ![name] = [@ EXCEPT ![field] = @ + 1]]
                       ELSE m,
                       Tail(tasks), field)

\* sort.Slice with the comparison reversed
RECURSIVE SortSlice_Descending(_)
SortSlice_Descending(rows) ==
    IF rows = {} THEN <<>>
    ELSE LET last == CHOOSE r \in rows :
                        \A q \in rows \ {r} : StringLess(q.Name, r.Name)
         IN  <<last>> \o SortSlice_Descending(rows \ {last})

\* lines 438-445: the rows of the map, in whatever order the map yields
\* them, sorted by Name with <; the names are the map's keys, so the order
\* is total
RECURSIVE SortSlice(_)
SortSlice(rows) ==
    IF rows = {} THEN <<>>
    ELSE LET first == CHOOSE r \in rows :
                         \A q \in rows \ {r} : StringLess(r.Name, q.Name)
         IN  <<first>> \o SortSlice(rows \ {first})

\* calculateEmployeeStats whose second loop increments InProgress
calculateEmployeeStats_SentAsInProgress(backlog, inProgress, sentToTestToday) ==
    LET m1 == CountInto(<<>>, inProgress, "InProgress")
        m2 == CountInto(m1, sentToTestToday, "InProgress")
        m3 == CountInto(m2, backlog, "Backlog")
    IN  SortSlice({m3[n] : n \in DOMAIN m3})

\* calculateEmployeeStats without the loop over backlog
calculateEmployeeStats_SkipsBacklog(backlog, inProgress, sentToTestToday) ==
    LET m1 == CountInto(<<>>, inProgress, "InProgress")
        m2 == CountInto(m1, sentToTestToday, "SentToTestToday")
    IN  SortSlice({m2[n] : n \in DOMAIN m2})

calculateEmployeeStats(backlog, inProgress, sentToTestToday) ==
    LET m1 == CountInto(<<>>, inProgress, "InProgress")
        m2 == CountInto(m1, sentToTestToday, "SentToTestToday")
        m3 == CountInto(m2, backlog, "Backlog")
    IN  SortSlice({m3[n] : n \in DOMAIN m3})

\* createExcelFile's arguments
SinkCall(backlog, inProgress, sentToTestToday, stats, reportDate) ==
    [backlogTasks |-> backlog, inProgressTasks |-> inProgress,
     sentToTestTodayTasks |-> sentToTestToday, employeeStats |-> stats,
     reportDate |-> reportDate]

\* lines 539-541: the file is named after reportDate, under s.opts.SaveDir
FilePath(reportDate) == <<reportDate>>

\* lines 452-547: createExcelFile builds the workbook in memory and saves
\* it; any step may fail, and a failure returns "" and an error
CreateExcelFile(call) ==
    \/ /\ files' = files \cup {FilePath(call.reportDate)}
       /\ repRet' = [err |-> "nil", path |-> FilePath(call.reportDate)]
    \/ /\ files' = files
       /\ repRet' = [err |-> "create excel file", path |-> <<>>]

\* a report that is written whatever collection returned
GenerateFinish_IgnoresError ==
    /\ mainPc = "returned"
    /\ repPc = "collect"
    /\ repPc' = "done"
    /\ LET call == SinkCall(ret.backlog, ret.inProgress, ret.sentToTestToday,
                            calculateEmployeeStats(ret.backlog, ret.inProgress,
                                                   ret.sentToTestToday),
                            runReportDate)
       IN  /\ sinkCalls' = Append(sinkCalls, call)
           /\ CreateExcelFile(call)
    /\ UNCHANGED exReportVars

\* lines 64-84: collectAndClassifyTasks has returned; on an error
\* GenerateExcelReport returns it wrapped, otherwise it computes the stats
\* and calls createExcelFile
GenerateFinish ==
    /\ mainPc = "returned"
    /\ repPc = "collect"
    /\ repPc' = "done"
    /\ IF ret.err # "nil"
       THEN /\ repRet' = [err |-> "collect tasks", path |-> <<>>]
            /\ UNCHANGED <<sinkCalls, files>>
       ELSE LET call == SinkCall(ret.backlog, ret.inProgress, ret.sentToTestToday,
                                 calculateEmployeeStats(ret.backlog, ret.inProgress,
                                                        ret.sentToTestToday),
                                 runReportDate)
            IN  /\ sinkCalls' = Append(sinkCalls, call)
                /\ CreateExcelFile(call)
    /\ UNCHANGED exReportVars

Producer == ProducerCtxDone \/ ProducerExit \/ \E w \in 1..defaultWorkers : ProducerSend(w)

Worker(w) ==
    \/ WorkerRangeEnd(w)
    \/ WorkerCheckCtx(w)
    \/ WorkerDoRequest(w)
    \/ WorkerResponseOK(w)
    \/ WorkerResponseErr(w)
    \/ WorkerSend(w)
    \/ WorkerSendCtxDone(w)

Next ==
    \/ Cancel
    \/ Call
    \/ Producer
    \/ \E w \in 1..defaultWorkers : Worker(w)
    \/ CloserClose
    \/ MainReturn
    \/ GenerateFinish

Spec == Init /\ [][Next]_vars

\* The Go scheduler runs every goroutine that can take a step; the owner of
\* ctx is under no obligation to cancel.
FairSpec ==
    /\ Spec
    /\ WF_vars(Producer)
    /\ \A w \in 1..defaultWorkers : WF_vars(Worker(w))
    /\ WF_vars(CloserClose)
    /\ WF_vars(MainReturn)

(***************************************************************************)
(* classifyTask on its own                                                 *)
(***************************************************************************)

InitClassify ==
    /\ cStatus \in StatusTitles
    /\ cUpd \in UpdForms
    /\ cAsOf \in AsOfs
    /\ cCat = "pending"
    /\ InitSummaryIdle
    /\ InitFetchIdle
    /\ InitSizeIdle
    /\ InitPoolWith(<<>>, <<>>, AsOfAt(BaseDay, 720, 0))

\* the task under classification; its assignee plays no part
ClassifiedTask == WorkPackage(1, cStatus, <<>>, UpdatedAtOf(cUpd))

DoClassify ==
    /\ cCat = "pending"
    /\ cCat' = classifyTask(ClassifiedTask, cAsOf)
    /\ UNCHANGED <<moreVars, cStatus, cUpd, cAsOf, poolVars, sumVars, fetchVars, sizeVars>>

NextClassify == DoClassify

ClassifySpec == InitClassify /\ [][NextClassify]_vars

(***************************************************************************)
(* A report without I/O: the tasks are classified into the three lists     *)
(* (lines 159-171 on every fetched task, lists concatenated as at lines    *)
(* 209-213), then summarised (line 68).  The lists are also given          *)
(* directly, to calculateEmployeeStats on its own.                         *)
(***************************************************************************)

\* sequences of at most n elements of S
BoundedSeqs(S, n) == UNION {[1..k -> S] : k \in 0..n}

InitSummary ==
    /\ InitClassifyIdle
    /\ InitFetchIdle
    /\ InitSizeIdle
    /\ InitPoolWith(<<>>, <<>>, AsOfAt(BaseDay, 720, 0))
    /\ sStats = <<>>
    /\ sAsOf \in ScenarioDates
    /\ \E s \in BoundedSeqs(ScenarioTasks, MaxTasks) :
          \/ /\ sPc = "classify"
             /\ sTasks = s
             /\ sBacklog = <<>> /\ sInProgress = <<>> /\ sSent = <<>>
          \/ \E i \in 0..Len(s) : \E j \in i..Len(s) :
                /\ sPc = "summarize"
                /\ sTasks = <<>>
                /\ sAsOf = AsOfJune1
                /\ sBacklog = SubSeq(s, 1, i)
                /\ sInProgress = SubSeq(s, i + 1, j)
                /\ sSent = SubSeq(s, j + 1, Len(s))

\* lines 159-171 and 209-213 on the tasks of the report
ClassifyAll ==
    /\ sPc = "classify"
    /\ LET res == ResultOf(sTasks, sAsOf)
       IN  /\ sBacklog' = res.Backlog
           /\ sInProgress' = res.InProgress
           /\ sSent' = res.SentToTestToday
    /\ sPc' = "summarize"
    /\ UNCHANGED <<moreVars, clsVars, poolVars, fetchVars, sizeVars, sTasks, sAsOf, sStats>>

\* line 68
Summarize ==
    /\ sPc = "summarize"
    /\ sStats' = calculateEmployeeStats(sBacklog, sInProgress, sSent)
    /\ sPc' = "done"
    /\ UNCHANGED <<moreVars, clsVars, poolVars, fetchVars, sizeVars, sTasks, sAsOf, sBacklog, sInProgress, sSent>>

NextSummary == ClassifyAll \/ Summarize

SummarySpec == InitSummary /\ [][NextSummary]_vars

(***************************************************************************)
(* fetchWorkPackagesForUser: one call, page by page, and what the worker   *)
(* that made the call does with its result                                 *)
(***************************************************************************)

\* the most pages the source holds for a job
MaxPages == 3

defaultPageSize == 200

\* strings.HasPrefix
HasPrefix(s, prefix) ==
    Len(s) >= Len(prefix) /\ \A i \in 1..Len(prefix) : s[i] = prefix[i]

\* strings.TrimRight(s, "/")
RECURSIVE TrimRightSlash(_)
TrimRightSlash(s) ==
    IF s # <<>> /\ s[Len(s)] = 47 THEN TrimRightSlash(SubSeq(s, 1, Len(s) - 1)) ELSE s

\* strconv.Itoa of a number that is not negative
RECURSIVE Itoa(_)
Itoa(n) == IF n < 10 THEN <<DigitRune(n)>> ELSE Itoa(n \div 10) \o <<DigitRune(n % 10)>>

\* lines 296-301; the prefixes are "http://" and "https://"
resolveURL(base, href) ==
    IF HasPrefix(href, <<104, 116, 116, 112, 58, 47, 47>>)
       \/ HasPrefix(href, <<104, 116, 116, 112, 115, 58, 47, 47>>)
    THEN href
    ELSE TrimRightSlash(base) \o href

\* lines 240-246: the URL of the first request,
\* base + "/api/v3/work_packages" + "?pageSize=200" (the filters parameter,
\* the same for every request of the call, is left out)
FirstURL(base) ==
    TrimRightSlash(base)
    \o <<47, 97, 112, 105, 47, 118, 51, 47, 119, 111, 114, 107, 95, 112, 97, 99,
         107, 97, 103, 101, 115>>
    \o <<63, 112, 97, 103, 101, 83, 105, 122, 101, 61>> \o Itoa(defaultPageSize)

\* where the source serves page k of the job: the first page at the URL of
\* the first request, page k at "http://op/n<k>"
PageURL(k) ==
    IF k = 1 THEN FirstURL(SourceBase) ELSE SourceBase \o <<47, 110>> \o Itoa(k)

\* the next link to page k as the source writes it: absolute, or relative
\* to the base URL ("/n<k>")
PageHref(k, form) == IF form = "abs" THEN PageURL(k) ELSE <<47, 110>> \o Itoa(k)

\* Embedded.Elements of the pages of a job, by page: two tasks, one task,
\* none, one task, ...
ChainElements ==
    SourcePages(ProjectCatalog[1], AssigneeCatalog[1]) \o << <<>> >>
    \o SourcePages(ProjectCatalog[1], AssigneeCatalog[3]) \o << <<>> >>

\* models.WorkPackageResponse of page k of a chain of n pages: every page
\* but the last links to the next one; the last has no next link, or one
\* with an empty href
Chain(n, forms, last) ==
    [k \in 1..n |->
        [elements |-> <<>> \o ChainElements[k],
         next |-> IF k < n THEN [present |-> TRUE, href |-> PageHref(k + 1, forms[k])]
                  ELSE [present |-> last = "empty", href |-> <<>>]]]

\* the page the source serves at url, 0 when there is none (status 404)
ServedPage(url) ==
    IF \E k \in 1..Len(fChain) : PageURL(k) = url
    THEN CHOOSE k \in 1..Len(fChain) : PageURL(k) = url
    ELSE 0

InitFetch ==
    /\ InitClassifyIdle
    /\ InitSummaryIdle
    /\ InitSizeIdle
    /\ InitPoolWith(<<>>, <<>>, AsOfAt(BaseDay, 720, 0))
    /\ fBase \in {SourceBase, SourceBase \o <<47>>}
    /\ \E n \in 1..MaxPages, last \in {"nil", "empty"} :
          \E forms \in [1..(n - 1) -> {"rel", "abs"}] :
              fChain = Chain(n, forms, last)
    /\ fCancelled = FALSE
    /\ fPc = "start"
    /\ fURL = <<>>
    /\ fAll = <<>>
    /\ fRet = NoFetchRet
    /\ fForward = <<>>
    /\ fReqs = <<>>
    /\ fFault = "none"
    /\ fAtCancel = NotCancelledYet

\* ctx is cancelled while the call runs
FetchCancel ==
    /\ fPc \in {"start", "request", "inflight"}
    /\ ~fCancelled
    /\ fCancelled' = TRUE
    /\ fAtCancel' = [pc |-> fPc, reqs |-> Len(fReqs), all |-> fAll]
    /\ UNCHANGED <<moreVars, clsVars, sumVars, poolVars, sizeVars, fBase, fChain, fPc, fURL, fAll, fRet,
                   fForward, fReqs, fFault>>

\* lines 229-248: the URL of the first page; all is nil
FetchStart ==
    /\ fPc = "start"
    /\ fURL' = FirstURL(fBase)
    /\ fAll' = <<>>
    /\ fPc' = "request"
    /\ UNCHANGED <<moreVars, clsVars, sumVars, poolVars, sizeVars, fAtCancel, fBase, fChain, fCancelled, fRet,
                   fForward, fReqs, fFault>>

\* client.Do failed and ctx.Err() is not checked
DoError_NoCtxCheck == "do request"

\* lines 262-267: the error returned when client.Do failed
DoError == IF fCancelled THEN "canceled" ELSE "do request"

\* an error return that hands back the pages read so far
FetchFail_ReturnsPartial(err, fault) ==
    /\ fPc' = "returned"
    /\ fRet' = [err |-> err, tasks |-> fAll]
    /\ fFault' = fault

\* every `return nil, err` of lines 250-291
FetchFail(err, fault) ==
    /\ fPc' = "returned"
    /\ fRet' = [err |-> err, tasks |-> <<>>]
    /\ fFault' = fault

\* a request that goes out whether ctx is cancelled or not
FetchDoRequest_IgnoresCtx ==
    /\ fPc = "request"
    /\ fReqs' = Append(fReqs, fURL)
    /\ fPc' = "inflight"
    /\ UNCHANGED <<moreVars, clsVars, sumVars, poolVars, sizeVars, fAtCancel, fBase, fChain, fCancelled, fURL,
                   fAll, fForward, fRet, fFault>>

\* lines 251-261: the request for nextURL is made; with ctx cancelled
\* client.Do fails at once, otherwise the request is in flight
FetchDoRequest ==
    /\ fPc = "request"
    /\ fReqs' = Append(fReqs, fURL)
    /\ IF fCancelled
       THEN FetchFail(DoError, "transport")
       ELSE fPc' = "inflight" /\ UNCHANGED <<fRet, fFault>>
    /\ UNCHANGED <<moreVars, clsVars, sumVars, poolVars, sizeVars, fAtCancel, fBase, fChain, fCancelled, fURL, fAll,
                   fForward>>

\* lines 262-282: the request in flight fails: client.Do returns an error
\* (transport failure, timeout, cancellation), the body cannot be read, the
\* status is not 200 (always so for a URL the source does not serve), or
\* the body does not decode
FetchResponseErr ==
    /\ fPc = "inflight"
    /\ \/ FetchFail(DoError, "transport")
       \/ FetchFail("read response", "read")
       \/ FetchFail("api error", "status")
       \/ ServedPage(fURL) # 0 /\ FetchFail("unmarshal", "decode")
    /\ UNCHANGED <<moreVars, clsVars, sumVars, poolVars, sizeVars, fAtCancel, fBase, fChain, fCancelled, fURL, fAll,
                   fForward, fReqs>>

\* a response handler that never follows the next link
FetchResponseOK_IgnoresNext ==
    /\ fPc = "inflight"
    /\ ServedPage(fURL) # 0
    /\ fAll' = fAll \o fChain[ServedPage(fURL)].elements
    /\ fPc' = "returned"
    /\ fRet' = [err |-> "nil", tasks |-> fAll']
    /\ UNCHANGED <<moreVars, clsVars, sumVars, poolVars, sizeVars, fAtCancel, fBase, fChain, fCancelled, fURL,
                   fForward, fReqs, fFault>>

\* lines 269-293: a 200 response is decoded and its elements appended; the
\* next link is resolved and followed, or the loop ends and all is returned
FetchResponseOK ==
    /\ fPc = "inflight"
    /\ ServedPage(fURL) # 0
    /\ LET page == fChain[ServedPage(fURL)]
       IN  /\ fAll' = fAll \o page.elements
           /\ IF ~page.next.present \/ page.next.href = <<>>
              THEN /\ fPc' = "returned"
                   /\ fRet' = [err |-> "nil", tasks |-> fAll']
                   /\ fURL' = fURL
              ELSE /\ fPc' = "request"
                   /\ fURL' = resolveURL(fBase, page.next.href)
                   /\ fRet' = fRet
    /\ UNCHANGED <<moreVars, clsVars, sumVars, poolVars, sizeVars, fAtCancel, fBase, fChain, fCancelled,
                   fForward, fReqs, fFault>>

\* lines 148-181 in the worker that made the call: on an error the job is
\* logged and skipped; otherwise the tasks are classified and the result,
\* unless it is empty, is sent on resultsCh (fForward holds what was sent);
\* with ctx cancelled the select may take ctx.Done() instead of the send
FetchUse ==
    /\ fPc = "returned"
    /\ fPc' = "used"
    /\ IF fRet.err # "nil" THEN fForward' = <<>>
       ELSE LET res == ResultOf(fRet.tasks, AsOfJune1)
            IN  IF Len(res.Backlog) = 0 /\ Len(res.InProgress) = 0
                   /\ Len(res.SentToTestToday) = 0
                THEN fForward' = <<>>
                ELSE \/ fForward' = <<res>>
                     \/ fCancelled /\ fForward' = <<>>
    /\ UNCHANGED <<moreVars, clsVars, sumVars, poolVars, sizeVars, fAtCancel, fBase, fChain, fCancelled, fURL, fAll,
                   fRet, fReqs, fFault>>

\* the steps of the goroutine that runs the call
FetchRun == FetchStart \/ FetchDoRequest \/ FetchResponseErr \/ FetchResponseOK \/ FetchUse

NextFetch == FetchCancel \/ FetchRun

FetchSpec == InitFetch /\ [][NextFetch]_vars

\* the goroutine is scheduled and every request comes back
FetchFairSpec == FetchSpec /\ WF_vars(FetchRun)

(***************************************************************************)
(* collectAndClassifyTasks with the pool at its size in the source.  The   *)
(* worker goroutines run the same code, so they are counted by position:   *)
(* at `range jobsCh`, at the poll of ctx.Done(), inside                    *)
(* fetchWorkPackagesForUser, at the send on resultsCh, returned.           *)
(***************************************************************************)

\* the most projects and assignees of a configuration
MaxSizeProjects == 3
MaxSizeAssignees == 4

\* line 89: const defaultWorkers, at its value in the source
sourceDefaultWorkers == 8

\* line 122
szTotalJobs == szProjects * szAssignees

\* a pool one worker short
szWorkerCount_OneShort ==
    IF szTotalJobs < sourceDefaultWorkers THEN szTotalJobs ELSE sourceDefaultWorkers - 1

\* lines 127-130
szWorkerCount ==
    IF szTotalJobs < sourceDefaultWorkers THEN szTotalJobs ELSE sourceDefaultWorkers

\* one worker goes from one position to another
Move(from, to) ==
    /\ szAt[from] > 0
    /\ szAt' = [szAt EXCEPT ![from] = @ - 1, ![to] = @ + 1]

InitSize ==
    /\ InitClassifyIdle
    /\ InitSummaryIdle
    /\ InitFetchIdle
    /\ InitPoolWith(<<>>, <<>>, AsOfAt(BaseDay, 720, 0))
    /\ \E np \in 0..MaxSizeProjects, na \in 0..MaxSizeAssignees :
          InitSizeWith(np, na, "start")

SizeCancel ==
    /\ ~szCancelled
    /\ szMainPc \in {"start", "merge"}
    /\ szCancelled' = TRUE
    /\ UNCHANGED <<moreVars, clsVars, sumVars, fetchVars, poolVars, szProjects, szAssignees, szMainPc,
                   szStarted, szAt, szProdPc, szSent, szJobsClosed, szResultsClosed>>

\* lines 119-125: an empty job set is refused before any goroutine starts
SizeRefuse ==
    /\ szMainPc = "start"
    /\ szTotalJobs = 0
    /\ szMainPc' = "returned"
    /\ UNCHANGED <<moreVars, clsVars, sumVars, fetchVars, poolVars, szProjects, szAssignees, szCancelled,
                   szStarted, szAt, szProdPc, szSent, szJobsClosed, szResultsClosed>>

\* lines 127-205: the loop `for i := 0; i < workerCount; i++` starts the
\* workers, then the producer and the closer are started
SizeStart ==
    /\ szMainPc = "start"
    /\ szTotalJobs > 0
    /\ szStarted' = szWorkerCount
    /\ szAt' = [szAt EXCEPT !.range = szWorkerCount]
    /\ szProdPc' = "select"
    /\ szMainPc' = "merge"
    /\ UNCHANGED <<moreVars, clsVars, sumVars, fetchVars, poolVars, szProjects, szAssignees, szCancelled,
                   szSent, szJobsClosed, szResultsClosed>>

\* line 195 meets line 141: the producer hands the next job to a worker
SizeHandOut ==
    /\ szProdPc = "select"
    /\ Move("range", "check")
    /\ szSent' = szSent + 1
    /\ szProdPc' = IF szSent + 1 < szTotalJobs THEN "select" ELSE "exit"
    /\ UNCHANGED <<moreVars, clsVars, sumVars, fetchVars, poolVars, szProjects, szAssignees, szCancelled,
                   szMainPc, szStarted, szJobsClosed, szResultsClosed>>

\* lines 193-194
SizeProducerCtxDone ==
    /\ szProdPc = "select"
    /\ szCancelled
    /\ szProdPc' = "exit"
    /\ UNCHANGED <<moreVars, clsVars, sumVars, fetchVars, poolVars, szProjects, szAssignees, szCancelled,
                   szMainPc, szStarted, szAt, szSent, szJobsClosed, szResultsClosed>>

\* line 188
SizeProducerExit ==
    /\ szProdPc = "exit"
    /\ szProdPc' = "done"
    /\ szJobsClosed' = TRUE
    /\ UNCHANGED <<moreVars, clsVars, sumVars, fetchVars, poolVars, szProjects, szAssignees, szCancelled,
                   szMainPc, szStarted, szAt, szSent, szResultsClosed>>

\* line 141 on the closed jobsCh
SizeRangeEnd ==
    /\ szJobsClosed
    /\ Move("range", "done")
    /\ UNCHANGED <<moreVars, clsVars, sumVars, fetchVars, poolVars, szProjects, szAssignees, szCancelled,
                   szMainPc, szStarted, szProdPc, szSent, szJobsClosed, szResultsClosed>>

\* lines 142-148
SizePoll ==
    /\ IF szCancelled THEN Move("check", "done") ELSE Move("check", "fetch")
    /\ UNCHANGED <<moreVars, clsVars, sumVars, fetchVars, poolVars, szProjects, szAssignees, szCancelled,
                   szMainPc, szStarted, szProdPc, szSent, szJobsClosed, szResultsClosed>>

\* lines 148-175: fetchWorkPackagesForUser returns: an error, or tasks none
\* of which is kept (back to `range jobsCh`), or tasks to send
SizeFetchReturns ==
    /\ Move("fetch", "range") \/ Move("fetch", "send")
    /\ UNCHANGED <<moreVars, clsVars, sumVars, fetchVars, poolVars, szProjects, szAssignees, szCancelled,
                   szMainPc, szStarted, szProdPc, szSent, szJobsClosed, szResultsClosed>>

\* lines 177-181 and 209
SizeSend ==
    /\ szMainPc = "merge"
    /\ ~szResultsClosed
    /\ Move("send", "range")
    /\ UNCHANGED <<moreVars, clsVars, sumVars, fetchVars, poolVars, szProjects, szAssignees, szCancelled,
                   szMainPc, szStarted, szProdPc, szSent, szJobsClosed, szResultsClosed>>

\* lines 178-179
SizeSendCtxDone ==
    /\ szCancelled
    /\ Move("send", "done")
    /\ UNCHANGED <<moreVars, clsVars, sumVars, fetchVars, poolVars, szProjects, szAssignees, szCancelled,
                   szMainPc, szStarted, szProdPc, szSent, szJobsClosed, szResultsClosed>>

\* lines 202-205: wg.Wait() returns when every started worker has returned
SizeCloser ==
    /\ szMainPc = "merge"
    /\ ~szResultsClosed
    /\ szAt.done = szStarted
    /\ szResultsClosed' = TRUE
    /\ UNCHANGED <<moreVars, clsVars, sumVars, fetchVars, poolVars, szProjects, szAssignees, szCancelled,
                   szMainPc, szStarted, szAt, szProdPc, szSent, szJobsClosed>>

\* lines 209-219
SizeReturn ==
    /\ szMainPc = "merge"
    /\ szResultsClosed
    /\ szMainPc' = "returned"
    /\ UNCHANGED <<moreVars, clsVars, sumVars, fetchVars, poolVars, szProjects, szAssignees, szCancelled,
                   szStarted, szAt, szProdPc, szSent, szJobsClosed, szResultsClosed>>

NextSize ==
    \/ SizeCancel \/ SizeRefuse \/ SizeStart
    \/ SizeHandOut \/ SizeProducerCtxDone \/ SizeProducerExit
    \/ SizeRangeEnd \/ SizePoll \/ SizeFetchReturns \/ SizeSend \/ SizeSendCtxDone
    \/ SizeCloser \/ SizeReturn

PoolSizeSpec == InitSize /\ [][NextSize]_vars

(***************************************************************************)
(* Properties of collectAndClassifyTasks                                   *)
(***************************************************************************)

Returned == mainPc = "returned"

NilLists == ret.backlog = <<>> /\ ret.inProgress = <<>> /\ ret.sentToTestToday = <<>>

\* ctx was cancelled before the call, or while a job was queued or in flight
CancelledInTime == hist.cancelPhase \in {"before_call", "pending"}

\* C1 as stated: whenever ctx was cancelled before the call or while a job
\* was still queued or in flight, collectAndClassifyTasks returns the
\* cancellation error and three nil lists.
C1_CancelAlwaysWins ==
    (Returned /\ CancelledInTime) => (ret.err = "canceled" /\ NilLists)

\* C1, amended: with at least one project and one assignee configured, a ctx
\* cancelled before the call or while a job was still queued or in flight
\* makes collectAndClassifyTasks return the cancellation error and three nil
\* lists, whatever the merge loop had collected.
C1_CancelWinsWithJobs ==
    (Returned /\ CancelledInTime /\ totalJobs > 0)
        => (ret.err = "canceled" /\ NilLists)

\* a run cancelled while jobs were pending, after the merge loop had already
\* collected tasks
C1_Witness ==
    /\ Returned
    /\ hist.cancelPhase = "pending"
    /\ ret.err = "canceled"
    /\ Len(allBacklog) + Len(allInProgress) + Len(allSent) > 0

\* C2: resultsCh is closed only after every worker has exited, and a run
\* that started the pool returns only after resultsCh is closed: at the
\* return every worker goroutine has exited.
C2_WorkersExitedAtReturn ==
    /\ resultsClosed => AllWorkersDone
    /\ (Returned /\ totalJobs > 0) =>
          (resultsClosed /\ DOMAIN workers = 1..workerCount /\ AllWorkersDone)

\* a return after a partial failure, with the whole pool of two workers gone
C2_Witness ==
    /\ Returned
    /\ ~cancelled
    /\ hist.fetchErr # {}
    /\ hist.fetchOK # {}
    /\ Cardinality(DOMAIN workers) >= 2
    /\ AllWorkersDone

\* C3 as stated: at the return the producer is not parked in its select
\* with a job still to send.
C3_ProducerWoundDownAtReturn == Returned => prodPc # "select"

\* the jobs whose fetch was started
Fetched == {k \in Jobs : hist.fetchCalls[k] > 0}

\* C4: once ctx is cancelled during a run, the run returns, with every
\* worker and the producer gone, and no job that was still queued at the
\* cancellation is ever fetched.
C4_CancelledRunReturns ==
    /\ (cancelled /\ mainPc = "merge")
          ~> (Returned /\ AllWorkersDone /\ prodPc = "done")
    /\ [](hist.queuedAtCancel \cap Fetched = {})

\* a run cancelled with jobs still queued has returned
C4_Witness ==
    /\ Returned
    /\ hist.cancelPhase = "pending"
    /\ hist.queuedAtCancel # {}
    /\ Fetched # {}
    /\ prodPc = "done"

\* the tasks of the jobs in a set, as the source serves them
TasksOfJobs(ks) == UNION { Elems(Flatten(PagesOf(k))) : k \in ks }

\* a list holds exactly the tasks of a set, each once
HoldsExactly(list, set) == Elems(list) = set /\ Len(list) = Cardinality(set)

\* what the jobs fetched without error contribute to a category
Expected(category) ==
    {t \in TasksOfJobs(hist.fetchOK) : classifyTask(t, runReportDate) = category}

\* C5: a run with jobs whose ctx is not cancelled returns a nil error
\* whichever jobs failed, and each returned list holds exactly the tasks of
\* its category from the jobs whose fetch succeeded: a failed job adds
\* nothing and takes nothing away.
C5_PartialFailureTolerated ==
    (Returned /\ ~cancelled /\ totalJobs > 0) =>
        /\ ret.err = "nil"
        /\ hist.fetchOK \cup hist.fetchErr = Jobs
        /\ hist.fetchOK \cap hist.fetchErr = {}
        /\ HoldsExactly(ret.backlog, Expected(taskCategoryBacklog))
        /\ HoldsExactly(ret.inProgress, Expected(taskCategoryInProgress))
        /\ HoldsExactly(ret.sentToTestToday, Expected(taskCategorySentToTestToday))

\* a nil-error return with a failed job and tasks of another job in the lists
C5_Witness ==
    /\ Returned
    /\ ret.err = "nil"
    /\ hist.fetchErr # {}
    /\ ret.backlog # <<>>
    /\ ret.sentToTestToday # <<>>

\* C6: with no project or no assignee configured the call returns the
\* configuration error and three nil lists, and no worker, producer, closer
\* or fetch is ever started.
C6_EmptyConfigRefused ==
    ((Len(projectIDs) = 0 \/ Len(assigneeIDs) = 0) /\ mainPc # "start") =>
        /\ Returned
        /\ ret.err = "config"
        /\ NilLists
        /\ workers = <<>>
        /\ prodPc = "idle"
        /\ closerPc = "idle"
        /\ ~jobsClosed
        /\ ~resultsClosed

\* the call with projects but no assignee has returned
C6_Witness ==
    /\ Returned
    /\ Len(projectIDs) > 0
    /\ Len(assigneeIDs) = 0
    /\ ret.err = "config"

\* C7: no job is received twice and no two workers hold the same job; when
\* ctx is not cancelled, at the return every job of the cross product has
\* been received once and fetched once.
C7_EachJobOnce ==
    /\ \A k \in Jobs : hist.recv[k] <= 1 /\ hist.fetchCalls[k] <= hist.recv[k]
    /\ \A v, w \in DOMAIN workers :
          (v # w /\ workers[v].job # 0) => workers[v].job # workers[w].job
    /\ (Returned /\ ~cancelled) =>
          \A k \in Jobs : hist.recv[k] = 1 /\ hist.fetchCalls[k] = 1

\* a completed run of a 2 x 2 cross product on two workers
C7_Witness ==
    /\ Returned
    /\ ~cancelled
    /\ Len(projectIDs) = 2
    /\ Len(assigneeIDs) = 2
    /\ Cardinality(DOMAIN workers) = 2
    /\ \A k \in Jobs : hist.fetchCalls[k] = 1

(***************************************************************************)
(* Properties of classifyTask                                              *)
(***************************************************************************)

Classified == cCat # "pending"

\* titles of StatusTitles that hold a sent-to-test keyword:
\* "Готово к тесту", "ТЕСТИРОВАНИЕ", "На тесте / в работе"
SentToTestTitles == {
    <<1043, 1086, 1090, 1086, 1074, 1086, 32, 1082, 32, 1090, 1077, 1089, 1090, 1091>>,
    <<1058, 1045, 1057, 1058, 1048, 1056, 1054, 1042, 1040, 1053, 1048, 1045>>,
    <<1053, 1072, 32, 1090, 1077, 1089, 1090, 1077, 32, 47, 32, 1074, 32, 1088,
      1072, 1073, 1086, 1090, 1077>> }

\* titles that hold an in-progress keyword:
\* "В процессе", "In Progress", "На тесте / в работе", "В работе (разработан)"
InProgressTitles == {
    <<1042, 32, 1087, 1088, 1086, 1094, 1077, 1089, 1089, 1077>>,
    <<73, 110, 32, 80, 114, 111, 103, 114, 101, 115, 115>>,
    <<1053, 1072, 32, 1090, 1077, 1089, 1090, 1077, 32, 47, 32, 1074, 32, 1088,
      1072, 1073, 1086, 1090, 1077>>,
    <<1042, 32, 1088, 1072, 1073, 1086, 1090, 1077, 32, 40, 1088, 1072, 1079,
      1088, 1072, 1073, 1086, 1090, 1072, 1085, 41>> }

\* titles that hold an excluded-from-backlog keyword:
\* "Разработан", "В работе (разработан)"
ExcludedTitles == {
    <<1056, 1072, 1079, 1088, 1072, 1073, 1086, 1090, 1072, 1085>>,
    <<1042, 32, 1088, 1072, 1073, 1086, 1090, 1077, 32, 40, 1088, 1072, 1079,
      1088, 1072, 1073, 1086, 1090, 1072, 1085, 41>> }

\* the calendar day of the report date on its own wall clock
ReportDay == (cAsOf.unix + cAsOf.off) \div 1440

\* The task was last updated on the report's day: the instant of a zoned
\* update time falls on that day of the report's wall clock; an update time
\* written without a zone carries that date; anything else is no date.
UpdatedOnReportDay ==
    CASE cUpd.kind \in {"rfc", "frac"} ->
            (cUpd.day * 1440 + cUpd.min - cUpd.off + cAsOf.off) \div 1440 = ReportDay
      [] cUpd.kind \in {"naive", "date"} -> cUpd.day = ReportDay
      [] OTHER -> FALSE

\* C8: a task whose status holds a sent-to-test keyword is SentToTestToday
\* exactly when it was last updated on the report's day (in the report's
\* zone), and is otherwise in no category.
C8_SentToTestOnlyToday ==
    (Classified /\ cStatus \in SentToTestTitles) =>
        /\ UpdatedOnReportDay => cCat = taskCategorySentToTestToday
        /\ ~UpdatedOnReportDay => cCat = taskCategoryNone

\* a task updated at 22:30 UTC the day before, which is the report's day at
\* +03:00, is SentToTestToday
C8_Witness ==
    /\ cCat = taskCategorySentToTestToday
    /\ cUpd.kind = "rfc"
    /\ cUpd.off = 0
    /\ cAsOf.off = 180
    /\ cUpd.day # ReportDay

\* titles with no keyword of any family
NoFamilyTitles == StatusTitles \ (SentToTestTitles \cup InProgressTitles \cup ExcludedTitles)

\* C9 as stated: every task whose status holds no keyword of the three
\* families is Backlog.
C9_BacklogIsDefault ==
    (Classified /\ cStatus \in NoFamilyTitles) => cCat = taskCategoryBacklog

\* C9, amended: every task with a non-empty status title that holds no
\* keyword of the three families is Backlog (a task without a status title
\* is in no category).
C9_BacklogIsDefaultForTitled ==
    /\ (Classified /\ cStatus \in NoFamilyTitles /\ cStatus # <<>>)
          => cCat = taskCategoryBacklog
    /\ (Classified /\ cStatus = <<>>) => cCat = taskCategoryNone

\* "Ready for test" holds no keyword and is Backlog
C9_Witness ==
    /\ cCat = taskCategoryBacklog
    /\ cStatus = <<82, 101, 97, 100, 121, 32, 102, 111, 114, 32, 116, 101, 115, 116>>

\* C10: a status with a sent-to-test and an in-progress keyword is decided
\* by rule 1 alone: SentToTestToday when updated on the report's day, no
\* category otherwise, never InProgress.
C10_SentToTestBeforeInProgress ==
    (Classified /\ cStatus \in (SentToTestTitles \cap InProgressTitles)) =>
        /\ cCat # taskCategoryInProgress
        /\ cCat = (IF UpdatedOnReportDay THEN taskCategorySentToTestToday
                   ELSE taskCategoryNone)

\* "На тесте / в работе", updated on an earlier day, is in no category
C10_Witness ==
    /\ cStatus \in (SentToTestTitles \cap InProgressTitles)
    /\ cUpd.kind = "rfc"
    /\ ~UpdatedOnReportDay
    /\ cCat = taskCategoryNone

(***************************************************************************)
(* Properties of the report: classification and calculateEmployeeStats     *)
(***************************************************************************)

\* the report of exactly these tasks has been classified and summarised
ReportDone(tasks) == sPc = "done" /\ sTasks = tasks

NoLists == sBacklog = <<>> /\ sInProgress = <<>> /\ sSent = <<>>

RECURSIVE Without(_, _)
Without(list, task) ==
    IF list = <<>> THEN <<>>
    ELSE IF Head(list) = task THEN Without(Tail(list), task)
    ELSE <<Head(list)>> \o Without(Tail(list), task)

\* C12: the task {"New", "Bob"} is Backlog, with the row {Bob, 0, 0, 1}; a
\* task {"В процессе", assignee ""} is in the InProgress list and in no
\* other, and the summary is the one of the report without it: it has no row
\* of its own and adds to no counter.
C12_BacklogAndUnnamedInProgress ==
    /\ ReportDone(<<TaskNewBob>>) =>
          /\ sBacklog = <<TaskNewBob>> /\ sInProgress = <<>> /\ sSent = <<>>
          /\ sStats = <<EmployeeStats(NameBob, 0, 0, 1)>>
    /\ ReportDone(<<TaskInProgressUnnamed>>) =>
          /\ sInProgress = <<TaskInProgressUnnamed>>
          /\ sBacklog = <<>> /\ sSent = <<>>
          /\ sStats = <<>>
    /\ (sPc = "done" /\ TaskInProgressUnnamed \in Elems(sTasks)) =>
          /\ TaskInProgressUnnamed \in Elems(sInProgress)
          /\ TaskInProgressUnnamed \notin Elems(sBacklog) \cup Elems(sSent)
          /\ \A n \in 1..Len(sStats) : sStats[n].Name # <<>>
          /\ sStats = calculateEmployeeStats(
                          sBacklog, Without(sInProgress, TaskInProgressUnnamed), sSent)

\* the report of both tasks: two tasks in the lists, one row
C12_Witness ==
    /\ ReportDone(<<TaskNewBob, TaskInProgressUnnamed>>)
    /\ sBacklog = <<TaskNewBob>>
    /\ sInProgress = <<TaskInProgressUnnamed>>
    /\ sStats = <<EmployeeStats(NameBob, 0, 0, 1)>>

(***************************************************************************)
(* classifyTask as a function of status title, updatedAt and reportDate    *)
(***************************************************************************)

\* a models.WorkPackage with all the fields of the struct: those of task,
\* and the others as given
FullWorkPackage(task, rest) ==
    [ID |-> rest.ID, Subject |-> rest.Subject, Type |-> rest.Type,
     Status |-> task.Status, Priority |-> rest.Priority, Assignee |-> rest.Assignee,
     Responsible |-> rest.Responsible, Project |-> rest.Project,
     StartDate |-> rest.StartDate, DueDate |-> rest.DueDate,
     CreatedAt |-> rest.CreatedAt, UpdatedAt |-> task.UpdatedAt]

\* "Fix" and "Bug"; "2024-05-01" and "2024-06-01"
RestPlain ==
    [ID |-> 1, Subject |-> <<>>, Type |-> <<>>, Priority |-> <<>>, Assignee |-> <<>>,
     Responsible |-> <<>>, Project |-> <<>>, StartDate |-> <<>>, DueDate |-> <<>>,
     CreatedAt |-> <<>>]

RestOther ==
    [ID |-> 7, Subject |-> <<70, 105, 120>>, Type |-> <<66, 117, 103>>,
     Priority |-> <<72, 105, 103, 104>>, Assignee |-> NameAlice,
     Responsible |-> NameBob, Project |-> <<79, 80>>,
     StartDate |-> <<50, 48, 50, 52, 45, 48, 53, 45, 48, 49>>,
     DueDate |-> <<50, 48, 50, 52, 45, 48, 54, 45, 48, 49>>,
     CreatedAt |-> UpdJune1]

\* the other fields all plain, all different, and one different at a time
RestVariants ==
    {RestPlain, RestOther}
    \cup {[RestPlain EXCEPT ![f] = RestOther[f]] : f \in DOMAIN RestPlain}

\* C13: the category of a task is one of the four outcomes, and every task
\* with the same status title and updatedAt gets it for the same
\* reportDate, whatever its id, subject, type, priority, assignee,
\* responsible, project, start, due and created fields are.
C13_ClassifyReadsStatusAndUpdatedAtOnly ==
    Classified =>
        /\ cCat \in Categories
        /\ \A rest \in RestVariants :
              classifyTask(FullWorkPackage(ClassifiedTask, rest), cAsOf) = cCat

\* "In Progress" with a zoneless update time is InProgress
C13_Witness ==
    /\ cCat = taskCategoryInProgress
    /\ cStatus = <<73, 110, 32, 80, 114, 111, 103, 114, 101, 115, 115>>
    /\ cUpd.kind = "naive"

(***************************************************************************)
(* Properties of calculateEmployeeStats                                    *)
(***************************************************************************)

Summarized == sPc = "done"

\* the sum of a counter over the rows of a summary
RECURSIVE SumOf(_, _)
SumOf(rows, field) ==
    IF rows = <<>> THEN 0 ELSE Head(rows)[field] + SumOf(Tail(rows), field)

\* how many tasks of a list have an assignee name
Named(list) == Cardinality({n \in 1..Len(list) : list[n].Assignee # <<>>})

\* C14: over the rows of the summary, the Backlog counters add up to the
\* number of backlog tasks with a non-empty assignee name, and likewise the
\* InProgress and the SentToTestToday counters.
C14_CounterSums ==
    Summarized =>
        /\ SumOf(sStats, "Backlog") = Named(sBacklog)
        /\ SumOf(sStats, "InProgress") = Named(sInProgress)
        /\ SumOf(sStats, "SentToTestToday") = Named(sSent)

\* a summary of a list with two tasks of one assignee and a task of nobody
C14_Witness ==
    /\ Summarized
    /\ Len(sInProgress) = 3
    /\ Named(sInProgress) = 2
    /\ Len(sStats) = 1
    /\ sStats[1].InProgress = 2

\* how often x occurs in a list
Occurrences(list, x) == Cardinality({n \in 1..Len(list) : list[n] = x})

\* the lists with the elements of list in every order
Reorderings(list) ==
    {s \in [1..Len(list) -> Elems(list)] :
        \A x \in Elems(list) : Occurrences(s, x) = Occurrences(list, x)}

\* C15: the rows are strictly ascending by Name, compared byte by byte, and
\* the summary is the same for every order of the tasks inside each of the
\* three lists.
C15_SortedAndOrderInsensitive ==
    Summarized =>
        /\ \A i, j \in 1..Len(sStats) :
              i < j => StringLess(sStats[i].Name, sStats[j].Name)
        /\ \A b \in Reorderings(sBacklog), p \in Reorderings(sInProgress),
              t \in Reorderings(sSent) :
              calculateEmployeeStats(b, p, t) = sStats

\* rows "Al", "Alice", "Борис" of a report whose first row made was "Борис"
C15_Witness ==
    /\ Summarized
    /\ Len(sStats) = 3
    /\ sStats[1].Name = NameAl
    /\ sStats[2].Name = NameAlice
    /\ sStats[3].Name = NameBoris
    /\ sInProgress = <<TaskInProgressBoris>>
    /\ Len(sBacklog) = 2

\* the assignee names of the three lists
NamesIn(lists) ==
    UNION {{lists[k][n].Assignee : n \in 1..Len(lists[k])} : k \in 1..Len(lists)}

\* C16: the names of the rows are exactly the non-empty assignee names of
\* the three lists, each once, and every row has a counter above zero.
C16_OneRowPerName ==
    Summarized =>
        /\ {sStats[n].Name : n \in 1..Len(sStats)}
              = NamesIn(<<sBacklog, sInProgress, sSent>>) \ {<<>>}
        /\ \A i, j \in 1..Len(sStats) : sStats[i].Name = sStats[j].Name => i = j
        /\ \A n \in 1..Len(sStats) :
              /\ sStats[n].Name # <<>>
              /\ sStats[n].InProgress + sStats[n].SentToTestToday + sStats[n].Backlog > 0

\* one row for an assignee with tasks in two lists, none for the task of
\* nobody
C16_Witness ==
    /\ Summarized
    /\ sStats = <<EmployeeStats(NameAlice, 0, 1, 1)>>
    /\ sInProgress = <<TaskInProgressUnnamed>>

(***************************************************************************)
(* Properties of fetchWorkPackagesForUser                                  *)
(***************************************************************************)

\* the records of the first k pages of the chain, in page order
RECURSIVE ChainRecords(_)
ChainRecords(k) == IF k = 0 THEN <<>> ELSE ChainRecords(k - 1) \o fChain[k].elements

FetchReturned == fPc \in {"returned", "used"}

\* C17: when every page request succeeds, the call has made exactly one
\* request per page of the chain, in page order (each one at the place the
\* previous response's next link points to), it returns a nil error and the
\* records of all pages concatenated in page order, and a call none of
\* whose requests fails does return.
C17_OneRequestPerPageThenAll ==
    /\ [](FetchReturned /\ fFault = "none"
            => /\ fRet.err = "nil"
               /\ fReqs = [k \in 1..Len(fChain) |-> PageURL(k)]
               /\ fRet.tasks = ChainRecords(Len(fChain)))
    /\ <>(fFault # "none" \/ (FetchReturned /\ fRet.err = "nil"))

\* a call over three pages, with a relative next link and a base URL that
\* ends in "/", has returned the records of all three
C17_Witness ==
    /\ FetchReturned /\ fRet.err = "nil"
    /\ Len(fChain) = MaxPages /\ Len(fReqs) = MaxPages
    /\ fBase # SourceBase
    /\ fChain[1].next.href = PageHref(2, "rel")
    /\ Len(fRet.tasks) = 3

\* C18: when a page request of the call fails (transport error, unreadable
\* body, status other than 200, undecodable payload), the call returns an
\* error and no records, and the worker forwards nothing of the job, the
\* records of pages already fetched included.
C18_FailedPageDropsJob ==
    (FetchReturned /\ fFault # "none")
        => /\ fRet.err \notin {"nil", "none"}
           /\ fRet.tasks = <<>>
           /\ fForward = <<>>

\* the second page answered with a status other than 200 after the first
\* page's records had been read, and the worker has moved on
C18_Witness ==
    /\ fPc = "used" /\ fFault = "status"
    /\ Len(fReqs) = 2 /\ fAll # <<>>
    /\ fRet.tasks = <<>> /\ fForward = <<>>

\* C19: when client.Do fails and the context is cancelled, the call returns
\* the context's error; when client.Do fails and the context is not
\* cancelled, it returns the "do request" error, which is not the
\* context's error.
C19_CancellationDistinctFromTransport ==
    (FetchReturned /\ fFault = "transport")
        => /\ fCancelled => fRet.err = "canceled"
           /\ ~fCancelled => fRet.err = "do request"
           /\ fRet.tasks = <<>>

\* the context was cancelled while the request for the second page was in
\* flight
C19_Witness ==
    /\ FetchReturned /\ fFault = "transport" /\ fCancelled
    /\ Len(fReqs) = 2 /\ fRet.err = "canceled"

(***************************************************************************)
(* The merge of collectAndClassifyTasks, by multiplicity                   *)
(***************************************************************************)

\* how often task t came back from the jobs 1..n whose fetch succeeded
RECURSIVE FetchedTimes(_, _)
FetchedTimes(n, t) ==
    IF n = 0 THEN 0
    ELSE FetchedTimes(n - 1, t)
         + (IF n \in hist.fetchOK THEN Occurrences(Flatten(PagesOf(n)), t) ELSE 0)

\* the returned list of a category
ReturnedList(category) ==
    CASE category = taskCategoryBacklog -> ret.backlog
      [] category = taskCategoryInProgress -> ret.inProgress
      [] category = taskCategorySentToTestToday -> ret.sentToTestToday

\* the fetched tasks that classifyTask puts in no list
DiscardedFetched ==
    {t \in SourceTasks : /\ FetchedTimes(totalJobs, t) > 0
                         /\ CategoryOf(t, runReportDate) = taskCategoryNone}

\* C20: after a return with a nil error every task occurs in the list of its
\* category exactly as often as the successfully fetched jobs delivered it
\* and in the other lists not at all; a task classifyTask discards, and
\* anything no successful job delivered, occurs in no list.
C20_MergeKeepsMultiplicity ==
    (Returned /\ ret.err = "nil") =>
        \A category \in Categories \ {taskCategoryNone} :
            /\ Elems(ReturnedList(category)) \subseteq SourceTasks
            /\ \A t \in SourceTasks :
                  Occurrences(ReturnedList(category), t) =
                      IF CategoryOf(t, runReportDate) = category
                      THEN FetchedTimes(totalJobs, t)
                      ELSE 0

\* a nil-error return that merged the results of at least three jobs, one
\* of them with a discarded task, into lists that hold tasks of two jobs
C20_Witness ==
    /\ Returned /\ ret.err = "nil"
    /\ Cardinality(hist.fetchOK) >= 3
    /\ DiscardedFetched # {}
    /\ Len(ret.backlog) >= 2
    /\ Len(ret.backlog) + Len(ret.inProgress) + Len(ret.sentToTestToday) >= 4

(***************************************************************************)
(* The summary of a run's result                                           *)
(***************************************************************************)

\* the tasks of the jobs 1..n whose fetch succeeded, in job order
RECURSIVE OkTasks(_)
OkTasks(n) ==
    IF n = 0 THEN <<>>
    ELSE OkTasks(n - 1) \o (IF n \in hist.fetchOK THEN Flatten(PagesOf(n)) ELSE <<>>)

\* the three lists of a run in which one worker took the jobs in order
InOrderResult == ResultOf(OkTasks(totalJobs), runReportDate)

\* line 68 on the lists of a result
SummaryOf(res) == calculateEmployeeStats(res.Backlog, res.InProgress, res.SentToTestToday)

ReturnedResult ==
    [Backlog |-> ret.backlog, InProgress |-> ret.inProgress,
     SentToTestToday |-> ret.sentToTestToday]

\* C21: with the report date and the source's answers fixed (which jobs
\* fail included) and ctx not cancelled, the summary of the returned lists
\* is the summary of the lists a single worker taking the jobs in order
\* would return, whatever the interleaving of the workers was and whatever
\* order it left the records in.
C21_SummaryIndependentOfInterleaving ==
    (Returned /\ ret.err = "nil") => SummaryOf(ReturnedResult) = SummaryOf(InOrderResult)

\* a run whose lists are ordered otherwise than the in-order run's, with a
\* summary of two rows or more
C21_Witness ==
    /\ Returned /\ ret.err = "nil"
    /\ ReturnedResult # InOrderResult
    /\ SummaryOf(ReturnedResult) = SummaryOf(InOrderResult)
    /\ Len(SummaryOf(ReturnedResult)) >= 2

(***************************************************************************)
(* fetchWorkPackagesForUser under cancellation                             *)
(***************************************************************************)

\* ctx was cancelled while the call had pages still to ask for: before a
\* request, or with the request for a page other than the last in flight
CancelledMidPagination ==
    /\ fCancelled
    /\ \/ fAtCancel.pc \in {"start", "request"}
       \/ fAtCancel.pc = "inflight" /\ fAtCancel.reqs < Len(fChain)

\* C22: once ctx is cancelled, the call appends nothing but the page of the
\* request that was in flight at that moment, makes at most one request
\* more, and that request fails with the context's error; a call cancelled
\* with pages still to ask for returns an error and follows no further
\* next link.
C22_CancelledFetchStopsPaging ==
    fCancelled =>
        /\ Len(fReqs) <= fAtCancel.reqs + 1
        /\ \/ fAll = fAtCancel.all
           \/ /\ fAtCancel.pc = "inflight"
              /\ fAll = fAtCancel.all \o fChain[fAtCancel.reqs].elements
        /\ (FetchReturned /\ Len(fReqs) = fAtCancel.reqs + 1)
              => (fFault = "transport" /\ fRet.err = "canceled")
        /\ (FetchReturned /\ CancelledMidPagination)
              => (fRet.err \notin {"nil", "none"} /\ fRet.tasks = <<>>)

\* ctx was cancelled with the first of three pages in flight; the response
\* still arrived and was appended, the request for the second page failed
\* and the call returned the context's error
C22_Witness ==
    /\ FetchReturned /\ fCancelled
    /\ Len(fChain) = MaxPages
    /\ fAtCancel.pc = "inflight" /\ fAtCancel.reqs = 1
    /\ fAll # <<>> /\ Len(fReqs) = 2
    /\ fRet.err = "canceled"

(***************************************************************************)
(* Jobs handed out after the cancellation                                  *)
(***************************************************************************)

\* the jobs a worker received after ctx was cancelled
ReceivedAfterCancel == {k \in hist.queuedAtCancel : hist.recv[k] > 0}

\* the producer left its loop through <-ctx.Done(), with jobs not yet sent
ProducerSawCancel == prodPc \in {"exit", "done"} /\ prodIdx <= totalJobs

\* C23: a job received after ctx was cancelled is never fetched and no
\* worker holds it past the poll of ctx.Done(); a worker at that poll with
\* ctx cancelled exits without a call of fetchWorkPackagesForUser; and once
\* the producer has taken <-ctx.Done() no further job is received.
C23_NoFetchForJobsAfterCancel ==
    /\ [](/\ \A k \in ReceivedAfterCancel : hist.fetchCalls[k] = 0
          /\ \A w \in DOMAIN workers :
                workers[w].pc \in {"fetch", "http", "send"}
                    => workers[w].job \notin hist.queuedAtCancel)
    /\ [][\A w \in DOMAIN workers :
            (workers[w].pc = "check" /\ cancelled /\ workers'[w] # workers[w])
                => (workers'[w].pc = "done" /\ hist'.fetchCalls = hist.fetchCalls)]_vars
    /\ [][ProducerSawCancel => (prodIdx' = prodIdx /\ hist'.recv = hist.recv)]_vars

\* the run has returned; a worker had received a job after the cancellation
\* and left without fetching it, and the producer had stopped with jobs
\* unsent
C23_Witness ==
    /\ Returned
    /\ ReceivedAfterCancel # {}
    /\ \A k \in ReceivedAfterCancel : hist.fetchCalls[k] = 0
    /\ ProducerSawCancel
    /\ Fetched # {}

(***************************************************************************)
(* The size of the worker pool                                             *)
(***************************************************************************)

\* min(8, |projectIDs| * |assigneeIDs|)
PoolSize ==
    IF szProjects * szAssignees < 8 THEN szProjects * szAssignees ELSE 8

\* workers holding a job: polling ctx, fetching, or sending the result
HoldingJob == szAt.check + szAt.fetch + szAt.send

\* C24: a call that gets past the empty-configuration check starts exactly
\* min(8, |projectIDs| * |assigneeIDs|) workers and a refused call starts
\* none; every started worker is in one position, so at any moment at most
\* that many jobs are held, and at most that many are being fetched.
C24_PoolSizeIsMinOfEightAndJobs ==
    /\ szMainPc \in {"idle", "start"} => szStarted = 0
    /\ (szMainPc \in {"merge", "returned"} /\ szProjects * szAssignees > 0)
          => szStarted = PoolSize
    /\ (szMainPc = "returned" /\ szProjects * szAssignees = 0) => szStarted = 0
    /\ szAt.range + HoldingJob + szAt.done = szStarted
    /\ szAt.fetch <= PoolSize
    /\ HoldingJob <= PoolSize

\* twelve jobs, eight of them being fetched at once
C24_Witness ==
    /\ szProjects * szAssignees = 12
    /\ szStarted = 8
    /\ szAt.fetch = 8
    /\ szSent = 8

(***************************************************************************)
(* What a worker sends on resultsCh                                        *)
(***************************************************************************)

\* the tasks of job k that classifyTask keeps
KeptOf(k) ==
    {t \in Elems(Flatten(PagesOf(k))) : CategoryOf(t, runReportDate) # taskCategoryNone}

\* worker w stands at the send on resultsCh
AtSend(w) == w \in DOMAIN workers /\ workers[w].pc = "send"

\* C25: a worker at the send on resultsCh holds a result with at least one
\* task, made only of tasks of the job it fetched, each in the list of the
\* category classifyTask gives it; the merge loop's lists change only by
\* receiving such a result whole; and a worker whose job came back without
\* tasks, or only with tasks that are discarded, never stands at the send.
C25_OnlyNonEmptyClassifiedBatches ==
    /\ [](\A w \in DOMAIN workers :
            AtSend(w) =>
                LET res == workers[w].res
                IN  /\ Len(res.Backlog) + Len(res.InProgress) + Len(res.SentToTestToday) >= 1
                    /\ workers[w].job \in hist.fetchOK
                    /\ KeptOf(workers[w].job) # {}
                    /\ Elems(res.Backlog) \cup Elems(res.InProgress)
                          \cup Elems(res.SentToTestToday) = KeptOf(workers[w].job)
                    /\ \A t \in Elems(res.Backlog) :
                          CategoryOf(t, runReportDate) = taskCategoryBacklog
                    /\ \A t \in Elems(res.InProgress) :
                          CategoryOf(t, runReportDate) = taskCategoryInProgress
                    /\ \A t \in Elems(res.SentToTestToday) :
                          CategoryOf(t, runReportDate) = taskCategorySentToTestToday)
    /\ [][<<allBacklog, allInProgress, allSent>>' # <<allBacklog, allInProgress, allSent>>
            => \E w \in DOMAIN workers :
                  /\ AtSend(w)
                  /\ workers'[w].pc = "range"
                  /\ allBacklog' = allBacklog \o workers[w].res.Backlog
                  /\ allInProgress' = allInProgress \o workers[w].res.InProgress
                  /\ allSent' = allSent \o workers[w].res.SentToTestToday]_vars

\* a run of four jobs has returned: one came back without tasks, one with
\* discarded tasks only, and the lists hold the tasks of the other two
C25_Witness ==
    /\ Returned /\ ret.err = "nil"
    /\ hist.fetchOK = Jobs /\ totalJobs = 4
    /\ \E k \in Jobs : Flatten(PagesOf(k)) = <<>>
    /\ \E k \in Jobs : Flatten(PagesOf(k)) # <<>> /\ KeptOf(k) = {}
    /\ Len(ret.backlog) + Len(ret.inProgress) + Len(ret.sentToTestToday) >= 2

(***************************************************************************)
(* One category for each task                                              *)
(***************************************************************************)

\* no task occurs twice in the three lists together
AtMostOnce(backlog, inProgress, sentToTestToday) ==
    LET lists == backlog \o inProgress \o sentToTestToday
    IN  \A m, n \in 1..Len(lists) : m < n => lists[m] # lists[n]

\* classifyTask gives every task of the source exactly one category
OneCategoryEach ==
    \A t \in SourceTasks, d \in RunDates :
        Cardinality({c \in Categories : <<t, d, c>> \in CategoryTable}) = 1

\* C26: classifyTask gives every task of the source exactly one of the four
\* categories, and at every moment of every run a task occurs at most once
\* in the three lists together: in a worker's result, in the merge loop's
\* accumulators and in the lists returned.
C26_CategoriesMutuallyExclusive ==
    /\ OneCategoryEach
    /\ AtMostOnce(allBacklog, allInProgress, allSent)
    /\ AtMostOnce(ret.backlog, ret.inProgress, ret.sentToTestToday)
    /\ \A w \in DOMAIN workers :
          AtMostOnce(workers[w].res.Backlog, workers[w].res.InProgress,
                     workers[w].res.SentToTestToday)

\* a run has returned with tasks in each of the three lists and a fetched
\* task in none
C26_Witness ==
    /\ Returned /\ ret.err = "nil"
    /\ ret.backlog # <<>> /\ ret.inProgress # <<>> /\ ret.sentToTestToday # <<>>
    /\ \E t \in TasksOfJobs(hist.fetchOK) :
          t \notin Elems(ret.backlog \o ret.inProgress \o ret.sentToTestToday)

(***************************************************************************)
(* classifyTask: the excluded-from-backlog family                          *)
(***************************************************************************)

\* titles with an excluded-from-backlog keyword and no keyword of the
\* sent-to-test or in-progress families: "Разработан"
ExcludedOnlyTitles == ExcludedTitles \ (SentToTestTitles \cup InProgressTitles)

\* titles with an in-progress and an excluded-from-backlog keyword and no
\* sent-to-test keyword: "В работе (разработан)"
InProgressAndExcludedTitles == (InProgressTitles \cap ExcludedTitles) \ SentToTestTitles

\* C27: a task whose status holds an excluded-from-backlog keyword and no
\* sent-to-test or in-progress keyword is in no category, whatever its
\* update time and the report date; a task whose status holds an
\* in-progress and an excluded-from-backlog keyword is InProgress.
C27_ExcludedDiscardedAfterInProgress ==
    /\ (Classified /\ cStatus \in ExcludedOnlyTitles) => cCat = taskCategoryNone
    /\ (Classified /\ cStatus \in InProgressAndExcludedTitles)
          => cCat = taskCategoryInProgress

\* "В работе (разработан)" is InProgress
C27_Witness ==
    /\ cStatus \in InProgressAndExcludedTitles
    /\ cCat = taskCategoryInProgress

(***************************************************************************)
(* isSentToTestToday: the zone of the comparison                           *)
(***************************************************************************)

\* the update time carries a zone (time.Parse with RFC3339 accepts it)
ZonedUpdate == cUpd.kind \in {"rfc", "frac"}

\* the calendar day of the update's instant on the wall clock of the
\* report date's zone
UpdateDayInReportZone ==
    (cUpd.day * 1440 + cUpd.min - cUpd.off + cAsOf.off) \div 1440

FirstPages(n) == [p \in 1..n |-> p]

\* C29: within a run every job is received at most once and leads to at
\* most one call of fetchWorkPackagesForUser; the requests of a job are for
\* its pages 1, 2, ... in order, each page at most once; a job whose fetch
\* failed is held by no worker afterwards, is not fetched with success
\* later, and is behind the producer, which never steps back.
C29_NothingRetried ==
    /\ [](\A k \in Jobs :
            /\ hist.recv[k] <= 1
            /\ hist.fetchCalls[k] <= 1
            /\ Len(hist.requests[k]) <= Len(PagesOf(k))
            /\ hist.requests[k] = FirstPages(Len(hist.requests[k]))
            /\ k \in hist.fetchErr =>
                  /\ k \notin hist.fetchOK
                  /\ k < prodIdx
                  /\ \A w \in DOMAIN workers : workers[w].job # k)
    /\ [][prodIdx' >= prodIdx]_vars

\* a run that was not cancelled has returned; the fetch of one job failed
\* on its second page, after which the other jobs were fetched
C29_Witness ==
    /\ Returned /\ ~cancelled
    /\ \E k \in hist.fetchErr :
          /\ hist.requests[k] = <<1, 2>>
          /\ \E j \in hist.fetchOK : j > k
    /\ \A k \in Jobs : hist.fetchCalls[k] = 1

(***************************************************************************)
(* Termination without cancellation                                        *)
(***************************************************************************)

\* a step of the call or of one of its goroutines
PoolStep ==
    \/ Call
    \/ Producer
    \/ \E w \in 1..defaultWorkers : Worker(w)
    \/ CloserClose
    \/ MainReturn

\* C30: as long as the call has not returned, the caller, the producer, a
\* worker or the closer can take a step (they are never all blocked), and
\* under fair scheduling, with every request answered, a call whose ctx is
\* never cancelled returns, whatever the numbers of projects and assignees
\* and whichever jobs fail.
C30_ReturnsWithoutCancellation ==
    /\ [](~Returned => ENABLED PoolStep)
    /\ (mainPc # "start") ~> (cancelled \/ Returned)

\* a run of the largest cross product in which every fetch failed has
\* returned, with ctx not cancelled
C30_Witness ==
    /\ Returned /\ ~cancelled
    /\ totalJobs = MaxJobs
    /\ hist.fetchErr = Jobs
    /\ ret.err = "nil"

(***************************************************************************)
(* C31                                                                     *)
(***************************************************************************)

\* the step that runs the producer's deferred close(jobsCh)
ProducerCloses == prodPc = "exit" /\ prodPc' = "done"

\* the step that runs the closer's close(resultsCh)
CloserCloses == closerPc = "wait" /\ closerPc' = "done"

\* a step in which the producer's send on jobsCh is taken
SendsOnJobs == prodIdx' # prodIdx

\* a step in which a worker's send on resultsCh is taken
SendsOnResults ==
    \E w \in DOMAIN workers :
        /\ workers[w].pc = "send"
        /\ workers'[w].pc = "range"

\* C31: in every interleaving of a run that started its goroutines,
\* cancelled or not, jobsCh is closed exactly once and only by the producer,
\* resultsCh is closed exactly once and only after every worker has exited,
\* and nothing is sent on a closed channel: each close finds its channel
\* open, no other step closes or reopens a channel, once resultsCh is
\* closed no worker is left that could send, and both channels do get
\* closed.
C31_ChannelsClosedOnceByTheirOwners ==
    /\ [](jobsClosed <=> prodPc = "done")
    /\ [](resultsClosed <=> closerPc = "done")
    /\ [](resultsClosed => AllWorkersDone)
    /\ [][ProducerCloses => ~jobsClosed /\ jobsClosed']_vars
    /\ [][jobsClosed' # jobsClosed => ProducerCloses]_vars
    /\ [][CloserCloses => ~resultsClosed /\ resultsClosed' /\ AllWorkersDone]_vars
    /\ [][resultsClosed' # resultsClosed => CloserCloses]_vars
    /\ [][SendsOnJobs => ~jobsClosed /\ ~jobsClosed']_vars
    /\ [][SendsOnResults => ~resultsClosed /\ ~resultsClosed']_vars
    /\ (mainPc = "merge") ~> (jobsClosed /\ resultsClosed)

\* a cancelled run in which results were sent has returned, both channels
\* closed, the producer having left through <-ctx.Done() with a job unsent
C31_Witness ==
    /\ Returned
    /\ cancelled
    /\ jobsClosed
    /\ resultsClosed
    /\ prodIdx <= totalJobs
    /\ allBacklog \o allInProgress \o allSent # <<>>

(***************************************************************************)
(* C32                                                                     *)
(***************************************************************************)

\* GenerateExcelReport has returned
Reported == repPc = "done"

\* C32: GenerateExcelReport calls createExcelFile at most once per
\* invocation and only after collectAndClassifyTasks returned a nil error,
\* with the three lists that call returned, the stats computed from exactly
\* those lists and the report date the classification used; when the
\* collection returns an error (no jobs, or cancellation) it returns an
\* error and an empty path and writes no file.
C32_SinkOnceAfterSuccessfulCollection ==
    /\ Len(sinkCalls) <= 1
    /\ ~Returned => sinkCalls = <<>> /\ files = {} /\ ~Reported
    /\ sinkCalls # <<>> =>
          /\ Returned
          /\ ret.err = "nil"
          /\ sinkCalls[1].backlogTasks = ret.backlog
          /\ sinkCalls[1].inProgressTasks = ret.inProgress
          /\ sinkCalls[1].sentToTestTodayTasks = ret.sentToTestToday
          /\ sinkCalls[1].employeeStats = SummaryOf(ReturnedResult)
          /\ sinkCalls[1].reportDate = runReportDate
    /\ files # {} => sinkCalls # <<>> /\ repRet.err = "nil"
    /\ (Reported /\ ret.err = "nil") => Len(sinkCalls) = 1
    /\ (Reported /\ ret.err # "nil") =>
          /\ ret.err \in {"config", "canceled"}
          /\ repRet.err = "collect tasks"
          /\ repRet.path = <<>>
          /\ sinkCalls = <<>>
          /\ files = {}

\* a report was written from the lists of a run in which a job failed
C32_Witness ==
    /\ Reported
    /\ ret.err = "nil"
    /\ hist.fetchErr # {}
    /\ Len(ret.backlog) + Len(ret.inProgress) + Len(ret.sentToTestToday) >= 2
    /\ repRet.err = "nil"
    /\ files = {repRet.path}

(***************************************************************************)
(* Consecutive runs of the report on one OpenProjectService.  The service  *)
(* holds opts, logger and client only (lines 33-37); a run's channels,     *)
(* accumulators and statsMap are locals of collectAndClassifyTasks and     *)
(* calculateEmployeeStats.  The pool is reduced to what reaches the merge  *)
(* loop: the outcome of each job, in any order.                            *)
(***************************************************************************)

\* the most jobs the service is configured with
MaxRunJobs == 2

\* completed runs are counted up to this number
MaxRunsCounted == 2

\* what the source answers for a job: an error, or the job's tasks
Response(ok, tasks) == [ok |-> ok, tasks |-> tasks]

RunResponses ==
    {Response(FALSE, <<>>),
     Response(TRUE, <<TaskReadyRuAlice, TaskNewBob>>),
     Response(TRUE, <<TaskInProgressBoris, TaskNewAl>>)}

RunInputs(n) ==
    {[asOf |-> d, responses |-> r] : d \in ScenarioDates, r \in [1..n -> RunResponses]}

\* what a run returned, with the input it ran on
RunRecord(input, err, res, stats) ==
    [input |-> input, err |-> err, backlog |-> res.Backlog,
     inProgress |-> res.InProgress, sentToTestToday |-> res.SentToTestToday,
     stats |-> stats]

InitRuns ==
    /\ InitOldIdle
    /\ InitJobIdle
    /\ InitAppIdle
    /\ InitCfgIdle
    /\ \E n \in 1..MaxRunJobs : InitRunsWith(n, "idle")

\* a run whose accumulators outlive the call
RunStart_KeepsLists ==
    /\ rnPc = "idle"
    /\ rnInput' \in RunInputs(rnJobs)
    /\ rnPc' = "merge"
    /\ rnCancelled' = FALSE
    /\ rnPending' = 1..rnJobs
    /\ UNCHANGED <<exRunsVars, rnJobs, rnAll, rnOut, rnCount>>

\* lines 55, 104-205, 207: a run starts at asOf with fresh channels and
\* empty accumulators
RunStart ==
    /\ rnPc = "idle"
    /\ rnInput' \in RunInputs(rnJobs)
    /\ rnPc' = "merge"
    /\ rnCancelled' = FALSE
    /\ rnPending' = 1..rnJobs
    /\ rnAll' = EmptyResult
    /\ UNCHANGED <<exRunsVars, rnJobs, rnOut, rnCount>>

\* the run's ctx is cancelled
RunCancel ==
    /\ rnPc = "merge"
    /\ ~rnCancelled
    /\ rnCancelled' = TRUE
    /\ UNCHANGED <<exRunsVars, rnJobs, rnPc, rnInput, rnPending, rnAll, rnOut,
                   rnCount>>

\* lines 141-181, 209-213: job k is done; a failed fetch, an empty result and
\* a worker that saw ctx.Done() send nothing, any other result is appended
\* to the accumulators
RunJobDone(k) ==
    /\ rnPc = "merge"
    /\ k \in rnPending
    /\ rnPending' = rnPending \ {k}
    /\ LET resp == rnInput.responses[k]
           res  == ResultOf(resp.tasks, rnInput.asOf)
       IN  \/ /\ resp.ok
              /\ res # EmptyResult
              /\ rnAll' = [Backlog |-> rnAll.Backlog \o res.Backlog,
                           InProgress |-> rnAll.InProgress \o res.InProgress,
                           SentToTestToday |->
                               rnAll.SentToTestToday \o res.SentToTestToday]
           \/ /\ ~resp.ok \/ res = EmptyResult \/ rnCancelled
              /\ rnAll' = rnAll
    /\ UNCHANGED <<exRunsVars, rnJobs, rnPc, rnInput, rnCancelled, rnOut,
                   rnCount>>

\* lines 215-219 and 64-68: the merge loop has ended; a cancelled run
\* returns ctx.Err(), any other the accumulators, from which the stats are
\* computed
RunReturn ==
    /\ rnPc = "merge"
    /\ rnPending = {}
    /\ rnPc' = "idle"
    /\ rnOut' = IF rnCancelled
                THEN RunRecord(rnInput, "canceled", EmptyResult, <<>>)
                ELSE RunRecord(rnInput, "nil", rnAll,
                               calculateEmployeeStats(rnAll.Backlog, rnAll.InProgress,
                                                      rnAll.SentToTestToday))
    /\ rnCount' = IF rnCount < MaxRunsCounted THEN rnCount + 1 ELSE rnCount
    /\ UNCHANGED <<exRunsVars, rnJobs, rnInput, rnCancelled, rnPending, rnAll>>

NextRuns ==
    \/ RunStart
    \/ RunCancel
    \/ \E k \in 1..MaxRunJobs : RunJobDone(k)
    \/ RunReturn

RunsSpec == InitRuns /\ [][NextRuns]_vars

(***************************************************************************)
(* C33                                                                     *)
(***************************************************************************)

\* the tasks the source answered with, job by job
RECURSIVE AnsweredTasks(_, _)
AnsweredTasks(responses, n) ==
    IF n = 0 THEN <<>>
    ELSE AnsweredTasks(responses, n - 1)
            \o (IF responses[n].ok THEN responses[n].tasks ELSE <<>>)

\* the classification of an input's tasks, taken in job order
ResultOfInput(input) ==
    ResultOf(AnsweredTasks(input.responses, Len(input.responses)), input.asOf)

SameMultiset(a, b) ==
    /\ Len(a) = Len(b)
    /\ \A t \in ScenarioTasks : Occurrences(a, t) = Occurrences(b, t)

\* the step in which a run returns
RunReturns == rnPc = "merge" /\ rnPc' = "idle"

\* C33: report generation keeps no state between runs.  In any sequence of
\* runs, the three category multisets and the employee summary of a run
\* that returned them are those of its own source responses and asOf; and a
\* run that follows a run with the same responses and asOf returns the
\* same category multisets and an identical summary, whatever the runs
\* before returned and however they failed.
C33_RunsAreIndependent ==
    /\ [](rnOut.err = "nil" =>
            LET res == ResultOfInput(rnOut.input)
            IN  /\ SameMultiset(rnOut.backlog, res.Backlog)
                /\ SameMultiset(rnOut.inProgress, res.InProgress)
                /\ SameMultiset(rnOut.sentToTestToday, res.SentToTestToday)
                /\ rnOut.stats = SummaryOf(res))
    /\ [][(/\ RunReturns
           /\ rnOut.err = "nil"
           /\ rnOut'.err = "nil"
           /\ rnOut'.input = rnOut.input)
          => /\ SameMultiset(rnOut'.backlog, rnOut.backlog)
             /\ SameMultiset(rnOut'.inProgress, rnOut.inProgress)
             /\ SameMultiset(rnOut'.sentToTestToday, rnOut.sentToTestToday)
             /\ rnOut'.stats = rnOut.stats]_vars

\* after two earlier runs, the second of which returned the lists in one
\* order, the same input is run again with the jobs finishing in the other
\* order: the lists come back in another order, as the same multisets
C33_Witness ==
    /\ rnCount = MaxRunsCounted
    /\ rnPc = "merge"
    /\ rnPending = {}
    /\ ~rnCancelled
    /\ rnOut.err = "nil"
    /\ rnOut.input = rnInput
    /\ rnOut.stats # <<>>
    /\ rnAll.Backlog # rnOut.backlog
    /\ SameMultiset(rnAll.Backlog, rnOut.backlog)

(***************************************************************************)
(* core.App (internal/core/app.go): ApplyConfig and Shutdown, called from  *)
(* several goroutines (main, the configuration watcher's callback).  Each  *)
(* ApplyConfig makes a generation: a context derived from a.rootCtx and    *)
(* the services that run under it.                                         *)
(***************************************************************************)

\* the goroutines that call into the App
MaxCallers == 2

\* the most generations made in a behaviour
MaxGenerations == 3

\* what a configuration does to the constructors: all succeed,
\* NewTelegramBot fails, NewDailyJobService fails
AppConfigs == {"ok", "bad_telegram", "bad_daily_job"}

\* a context made by context.WithCancel(a.rootCtx) and whether the three
\* service goroutines were started under it
Generation(dead) == [cancelled |-> dead, started |-> FALSE]

\* the CancelFunc of generation g is called
Cancelled(gens, g) == [gens EXCEPT ![g].cancelled = TRUE]

InitApp ==
    /\ InitOldIdle
    /\ InitJobIdle
    /\ InitRunsIdle
    /\ InitCfgIdle
    /\ InitAppWith(MaxCallers)

\* a.rootCtx is cancelled (SIGINT, SIGTERM): so is every context derived
\* from it
AppRootCancel ==
    /\ ~apRoot
    /\ apRoot' = TRUE
    /\ apGens' = [g \in DOMAIN apGens |-> [apGens[g] EXCEPT !.cancelled = TRUE]]
    /\ UNCHANGED <<exAppVars, apMu, apCancel, apFields, apCallers>>

\* lines 43, 95: a.mu.Lock() at the entry of ApplyConfig(cfg) or Shutdown()
AppLock(c) ==
    /\ apCallers[c].pc = "idle"
    /\ apMu = 0
    /\ apMu' = c
    /\ \/ \E cfg \in AppConfigs :
             /\ Len(apGens) < MaxGenerations
             /\ apCallers' = [apCallers EXCEPT ![c] =
                    [pc |-> "stop_previous", op |-> "ApplyConfig", cfg |-> cfg,
                     gen |-> 0, ret |-> "none"]]
       \/ apCallers' = [apCallers EXCEPT ![c] =
              [pc |-> "shutdown", op |-> "Shutdown", cfg |-> "none",
               gen |-> 0, ret |-> "none"]]
    /\ UNCHANGED <<exAppVars, apCancel, apFields, apGens, apRoot>>

\* an ApplyConfig that leaves the previous generation running
AppStopPrevious_Skips(c) ==
    /\ apCallers[c].pc = "stop_previous"
    /\ apCallers' = [apCallers EXCEPT ![c].pc = "new_context"]
    /\ apCancel' = 0
    /\ UNCHANGED <<exAppVars, apMu, apFields, apGens, apRoot>>

\* lines 46-50
AppStopPrevious(c) ==
    /\ apCallers[c].pc = "stop_previous"
    /\ apCallers' = [apCallers EXCEPT ![c].pc = "new_context"]
    /\ IF apCancel # 0
       THEN /\ apGens' = Cancelled(apGens, apCancel)
            /\ apCancel' = 0
       ELSE UNCHANGED <<apGens, apCancel>>
    /\ UNCHANGED <<exAppVars, apMu, apFields, apRoot>>

\* line 52: a context derived from a cancelled parent is cancelled at birth
AppNewContext(c) ==
    /\ apCallers[c].pc = "new_context"
    /\ apGens' = Append(apGens, Generation(apRoot))
    /\ apCallers' = [apCallers EXCEPT ![c].pc = "construct", ![c].gen = Len(apGens) + 1]
    /\ UNCHANGED <<exAppVars, apMu, apCancel, apFields, apRoot>>

\* a failed construction that returns without cancel()
AppConstruct_LeaksContext(c) ==
    /\ apCallers[c].pc = "construct"
    /\ apCallers' = [apCallers EXCEPT
          ![c].pc = IF apCallers[c].cfg = "ok" THEN "start" ELSE "unlock",
          ![c].ret = IF apCallers[c].cfg = "ok" THEN "none" ELSE "error"]
    /\ UNCHANGED <<exAppVars, apMu, apCancel, apFields, apGens, apRoot>>

\* lines 54-73: the services are constructed; when NewTelegramBot or
\* NewDailyJobService fails, cancel() is called and the error returned
\* (services.Init never returns nil)
AppConstruct(c) ==
    /\ apCallers[c].pc = "construct"
    /\ IF apCallers[c].cfg = "ok"
       THEN /\ apCallers' = [apCallers EXCEPT ![c].pc = "start"]
            /\ apGens' = apGens
       ELSE /\ apCallers' = [apCallers EXCEPT ![c].pc = "unlock", ![c].ret = "error"]
            /\ apGens' = Cancelled(apGens, apCallers[c].gen)
    /\ UNCHANGED <<exAppVars, apMu, apCancel, apFields, apRoot>>

\* lines 75-81: the three service goroutines are started under ctx
AppStart(c) ==
    /\ apCallers[c].pc = "start"
    /\ apGens' = [apGens EXCEPT ![apCallers[c].gen].started = TRUE]
    /\ apCallers' = [apCallers EXCEPT ![c].pc = "store"]
    /\ UNCHANGED <<exAppVars, apMu, apCancel, apFields, apRoot>>

\* lines 83-90
AppStore(c) ==
    /\ apCallers[c].pc = "store"
    /\ apFields' = apCallers[c].gen
    /\ apCancel' = apCallers[c].gen
    /\ apCallers' = [apCallers EXCEPT ![c].pc = "unlock", ![c].ret = "nil"]
    /\ UNCHANGED <<exAppVars, apMu, apGens, apRoot>>

\* lines 98-102
AppShutdown(c) ==
    /\ apCallers[c].pc = "shutdown"
    /\ apCallers' = [apCallers EXCEPT ![c].pc = "unlock", ![c].ret = "nil"]
    /\ IF apCancel # 0
       THEN /\ apGens' = Cancelled(apGens, apCancel)
            /\ apCancel' = 0
       ELSE UNCHANGED <<apGens, apCancel>>
    /\ UNCHANGED <<exAppVars, apMu, apFields, apRoot>>

\* lines 44, 96: the deferred a.mu.Unlock(); the call returns
AppUnlock(c) ==
    /\ apCallers[c].pc = "unlock"
    /\ apMu' = 0
    /\ apCallers' = [apCallers EXCEPT ![c].pc = "idle"]
    /\ UNCHANGED <<exAppVars, apCancel, apFields, apGens, apRoot>>

NextApp ==
    \/ AppRootCancel
    \/ \E c \in 1..MaxCallers :
          \/ AppLock(c)
          \/ AppStopPrevious(c)
          \/ AppNewContext(c)
          \/ AppConstruct(c)
          \/ AppStart(c)
          \/ AppStore(c)
          \/ AppShutdown(c)
          \/ AppUnlock(c)

AppSpec == InitApp /\ [][NextApp]_vars

(***************************************************************************)
(* C34                                                                     *)
(***************************************************************************)

\* the generations whose context is not cancelled
LiveGenerations == {g \in DOMAIN apGens : ~apGens[g].cancelled}

\* a step that starts the service goroutines of generation g
StartsServices(g) == ~apGens[g].started /\ apGens'[g].started

\* the step of caller c that runs the body of Shutdown
ShutsDown(c) == apCallers[c].pc = "shutdown" /\ apCallers'[c].pc = "unlock"

\* C34: after any sequence of ApplyConfig and Shutdown calls, concurrent
\* ones included, at most one generation of services has a context that is
\* not cancelled: when ApplyConfig starts the goroutines of the new
\* generation every earlier one is already cancelled, and Shutdown cancels
\* the current generation and changes nothing when there is none.
C34_AtMostOneLiveGeneration ==
    /\ [](Cardinality(LiveGenerations) <= 1)
    /\ [](apCancel # 0 => LiveGenerations \subseteq {apCancel})
    /\ [][\A g \in DOMAIN apGens :
             StartsServices(g) => LiveGenerations \subseteq {g}]_vars
    /\ [][\A c \in DOMAIN apCallers :
             ShutsDown(c) =>
                /\ apCancel' = 0
                /\ LiveGenerations' = {}
                /\ apCancel = 0 => apGens' = apGens]_vars

\* two generations were started from different goroutines; the first is
\* cancelled, the second runs, and the other goroutine waits for the lock
C34_Witness ==
    /\ Len(apGens) = 2
    /\ apGens[1].started /\ apGens[1].cancelled
    /\ apGens[2].started /\ ~apGens[2].cancelled
    /\ ~apRoot
    /\ apMu = 2
    /\ apCallers[2].pc = "store"
    /\ apCallers[1].ret = "nil" /\ apCallers[1].op = "ApplyConfig"

(***************************************************************************)
(* C35                                                                     *)
(***************************************************************************)

\* the step in which caller c's ApplyConfig gives up on a constructor error
FailsToConstruct(c) ==
    /\ apCallers[c].pc = "construct"
    /\ apCallers'[c].ret = "error"

\* caller c's ApplyConfig has failed and is about to return
FailedApply(c) ==
    /\ apCallers[c].op = "ApplyConfig"
    /\ apCallers[c].ret = "error"
    /\ apCallers[c].pc = "unlock"

\* the step in which caller c's failed ApplyConfig returns
FailedApplyReturns(c) == FailedApply(c) /\ apCallers'[c].pc = "idle"

\* C35: when ApplyConfig fails while constructing a service, it has
\* already cancelled the previous generation, it cancels the context it
\* just made, starts no service goroutine and stores no cancel function:
\* after a failed ApplyConfig no service is running, and the previous
\* services are not restored (a cancelled context stays cancelled).
C35_FailedApplyLeavesNothingRunning ==
    /\ [][\A c \in DOMAIN apCallers :
             FailsToConstruct(c) =>
                /\ LiveGenerations \subseteq {apCallers[c].gen}
                /\ apCancel = 0
                /\ apCancel' = 0
                /\ apGens'[apCallers[c].gen].cancelled
                /\ ~apGens'[apCallers[c].gen].started
                /\ LiveGenerations' = {}]_vars
    /\ [](\A c \in DOMAIN apCallers :
             FailedApply(c) =>
                /\ LiveGenerations = {}
                /\ apCancel = 0
                /\ ~apGens[apCallers[c].gen].started)
    /\ [][\A c \in DOMAIN apCallers :
             FailedApplyReturns(c) =>
                /\ LiveGenerations' = {}
                /\ apCancel' = 0
                /\ \A g \in DOMAIN apGens : apGens'[g].started = apGens[g].started]_vars
    /\ [][\A g \in DOMAIN apGens : apGens[g].cancelled => apGens'[g].cancelled]_vars

\* with a generation running, an ApplyConfig failed: the fields still hold
\* the first generation's services, cancelled, and nothing runs
C35_Witness ==
    /\ Len(apGens) = 2
    /\ apGens[1].started /\ apGens[1].cancelled
    /\ ~apGens[2].started /\ apGens[2].cancelled
    /\ ~apRoot
    /\ apFields = 1
    /\ apCancel = 0
    /\ apMu = 0
    /\ \E c \in DOMAIN apCallers :
          /\ apCallers[c].op = "ApplyConfig"
          /\ apCallers[c].ret = "error"
          /\ apCallers[c].pc = "idle"
          /\ apCallers[c].gen = 2

(***************************************************************************)
(* config.Manager (internal/config/config.go): the callback registered     *)
(* with OnConfigChange, run by the watcher goroutine once per change of    *)
(* the file, beside goroutines that call OnChange and Current.  The        *)
(* sections under m.mu are steps.                                          *)
(***************************************************************************)

\* the changes of the file in a behaviour
MaxChanges == 3

\* the callbacks that get registered with OnChange
MaxSubscribers == 2

\* what can be wrong with a version of the file: nothing, it does not
\* unmarshal into Config, it fails validation
ConfigFaults == {"none", "unmarshal", "validate"}

\* one call fn(newCfg)
SubscriberCall(fn, cfg) == [fn |-> fn, cfg |-> cfg]

InitCfg ==
    /\ InitOldIdle
    /\ InitJobIdle
    /\ InitRunsIdle
    /\ InitAppIdle
    /\ InitCfgWith("idle")

\* lines 105-109: OnChange(fn)
CfgOnChange(fn) ==
    /\ cfPc # "off"
    /\ \A i \in DOMAIN cfSubs : cfSubs[i] # fn
    /\ cfSubs' = Append(cfSubs, fn)
    /\ UNCHANGED <<exCfgVars, cfCfg, cfPc, cfNew, cfSnap, cfIdx, cfCalls, cfBefore,
                   cfChanges, cfRead>>

\* lines 98-102: Current()
CfgCurrent ==
    /\ cfPc # "off"
    /\ cfRead # cfCfg
    /\ cfRead' = cfCfg
    /\ UNCHANGED <<exCfgVars, cfCfg, cfSubs, cfPc, cfNew, cfSnap, cfIdx, cfCalls, cfBefore,
                   cfChanges>>

\* lines 68-71: the file changed and the callback is entered
CfgFileChanged ==
    /\ cfPc = "idle"
    /\ cfChanges < MaxChanges
    /\ cfChanges' = cfChanges + 1
    /\ \E fault \in ConfigFaults : cfNew' = [version |-> cfChanges + 1, fault |-> fault]
    /\ cfPc' = "unmarshal"
    /\ cfCalls' = <<>>
    /\ cfBefore' = cfCfg
    /\ UNCHANGED <<exCfgVars, cfCfg, cfSubs, cfSnap, cfIdx, cfRead>>

\* lines 72-75
CfgUnmarshal ==
    /\ cfPc = "unmarshal"
    /\ cfPc' = IF cfNew.fault = "unmarshal" THEN "idle" ELSE "validate"
    /\ UNCHANGED <<exCfgVars, cfCfg, cfSubs, cfNew, cfSnap, cfIdx, cfCalls, cfBefore,
                   cfChanges, cfRead>>

\* a callback that logs the validation error and goes on
CfgValidate_GoesOn ==
    /\ cfPc = "validate"
    /\ cfPc' = "store"
    /\ UNCHANGED <<exCfgVars, cfCfg, cfSubs, cfNew, cfSnap, cfIdx, cfCalls, cfBefore,
                   cfChanges, cfRead>>

\* lines 77-80
CfgValidate ==
    /\ cfPc = "validate"
    /\ cfPc' = IF cfNew.fault = "validate" THEN "idle" ELSE "store"
    /\ UNCHANGED <<exCfgVars, cfCfg, cfSubs, cfNew, cfSnap, cfIdx, cfCalls, cfBefore,
                   cfChanges, cfRead>>

\* lines 82-85: under m.mu the configuration is replaced and the
\* subscribers are copied
CfgStore ==
    /\ cfPc = "store"
    /\ cfCfg' = cfNew.version
    /\ cfSnap' = cfSubs
    /\ cfIdx' = 1
    /\ cfPc' = "notify"
    /\ UNCHANGED <<exCfgVars, cfSubs, cfNew, cfCalls, cfBefore, cfChanges, cfRead>>

\* lines 89-91: one iteration of the loop over subs, or its end
CfgNotify ==
    /\ cfPc = "notify"
    /\ IF cfIdx <= Len(cfSnap)
       THEN /\ cfCalls' = Append(cfCalls, SubscriberCall(cfSnap[cfIdx], cfNew.version))
            /\ cfIdx' = cfIdx + 1
            /\ cfPc' = cfPc
       ELSE /\ cfPc' = "idle"
            /\ UNCHANGED <<cfCalls, cfIdx>>
    /\ UNCHANGED <<exCfgVars, cfCfg, cfSubs, cfNew, cfSnap, cfBefore, cfChanges, cfRead>>

NextCfg ==
    \/ \E fn \in 1..MaxSubscribers : CfgOnChange(fn)
    \/ CfgCurrent
    \/ CfgFileChanged
    \/ CfgUnmarshal
    \/ CfgValidate
    \/ CfgStore
    \/ CfgNotify

CfgSpec == InitCfg /\ [][NextCfg]_vars

(***************************************************************************)
(* C36                                                                     *)
(***************************************************************************)

\* the step in which the callback returns on a version it cannot use
RejectsChange == cfPc \in {"unmarshal", "validate"} /\ cfPc' = "idle"

\* the step of lines 82-85
StoresChange == cfPc = "store" /\ cfPc' = "notify"

\* the step in which the loop over subs ends
ChangeHandled == cfPc = "notify" /\ cfPc' = "idle"

\* the calls made so far are the first subscribers of the copy, in order,
\* each with the new configuration
CalledInOrder ==
    /\ Len(cfCalls) <= Len(cfSnap)
    /\ \A i \in DOMAIN cfCalls : cfCalls[i] = SubscriberCall(cfSnap[i], cfNew.version)

\* C36: when a changed configuration file fails to unmarshal or fails
\* validation, the Manager keeps its current configuration and notifies no
\* subscriber; when it is valid, the stored configuration is replaced
\* before any subscriber is called, and every subscriber registered at the
\* moment of the replacement is called once with the new configuration.
C36_InvalidKeptValidStoredThenNotified ==
    /\ [][RejectsChange =>
             /\ cfNew.fault # "none"
             /\ cfCfg' = cfBefore
             /\ cfCalls' = <<>>]_vars
    /\ [](cfNew.fault # "none" =>
             /\ cfCfg # cfNew.version
             /\ cfRead # cfNew.version
             /\ cfCalls = <<>>)
    /\ [](cfPc \in {"unmarshal", "validate", "store"} =>
             cfCfg = cfBefore /\ cfCalls = <<>>)
    /\ [](cfCalls # <<>> =>
             /\ cfNew.fault = "none"
             /\ cfCfg = cfNew.version
             /\ CalledInOrder)
    /\ [][StoresChange =>
             /\ cfNew.fault = "none"
             /\ cfCfg' = cfNew.version
             /\ cfSnap' = cfSubs
             /\ cfCalls' = <<>>]_vars
    /\ [][ChangeHandled =>
             /\ cfCfg = cfNew.version
             /\ Len(cfCalls) = Len(cfSnap)
             /\ CalledInOrder]_vars

\* the first version of the file was rejected and the second stored; the
\* one subscriber registered by then was called with it, the one registered
\* during the notification was not
C36_Witness ==
    /\ cfPc = "idle"
    /\ cfChanges = 2
    /\ cfBefore = 0
    /\ cfCfg = 2
    /\ cfRead = 2
    /\ cfCalls = <<SubscriberCall(1, 2)>>
    /\ cfSubs = <<1, 2>>

(***************************************************************************)
(* DailyJobService (internal/services/job.go): Start and nextRunTime.      *)
(* Instants are seconds since the Unix epoch.  d.timezone is time.Local:   *)
(* UTC, a zone of fixed offset, or a zone that changes its offset on the   *)
(* day in question.                                                        *)
(***************************************************************************)

\* the reports sent in a behaviour
MaxSends == 2

SecondsPerDay == 86400

\* Europe/Moscow; Europe/Berlin around the end of summer time on
\* 2024-10-27 and around its start on 2024-03-31, both at 01:00 UTC
LocMoscow == LocationOf(10800, 10800, 0)
LocBerlinAutumn == LocationOf(7200, 3600, DaysFromCivil(2024, 10, 27) * SecondsPerDay + 3600)
LocBerlinSpring == LocationOf(3600, 7200, DaysFromCivil(2024, 3, 31) * SecondsPerDay + 3600)

\* where the service runs and the civil day on which it is observed
JobScenarios ==
    {<<LocUTC, <<2024, 10, 27>>>>, <<LocMoscow, <<2024, 10, 27>>>>,
     <<LocBerlinAutumn, <<2024, 10, 27>>>>, <<LocBerlinSpring, <<2024, 3, 31>>>>}

\* DailyJobOpts as config validation lets them through: `required` refuses
\* the zero value, so hour is 1..23 and minute 1..59
JobHours == {1, 2, 23}
JobMinutes == {10, 50}

\* the readings of the clock: every ten minutes from the local midnight of
\* the day for 26 hours, on the minute and one second after
JobClocks(scn) ==
    LET midnight == DaysFromCivil(scn[2][1], scn[2][2], scn[2][3]) * SecondsPerDay
                       - scn[1].before
    IN  {midnight + 600 * k + s : k \in 0..156, s \in {0, 1}}

\* how long after the timer's expiry the loop reads the clock again
JobLags == {1, 60}

\* Location.lookup: the offset in force at the instant u and the span of
\* instants over which it is in force
ZoneLookup(loc, u) ==
    IF u < loc.at
    THEN [offset |-> loc.before, start |-> 0, end |-> loc.at]
    ELSE [offset |-> loc.after, start |-> loc.at, end |-> 2147483647]

\* now.Year(), now.Month(), now.Day() of the instant u in loc
LocalDate(u, loc) == CivilFromDays((u + ZoneLookup(loc, u).offset) \div SecondsPerDay)

\* time.Date(y, m, d, hh, mm, 0, 0, loc): the wall clock reading is taken
\* as UTC, the offset found there is subtracted, and when the result falls
\* outside the span of that offset the offset at the result is used
GoDate(y, m, d, hh, mm, loc) ==
    LET unix   == DaysFromCivil(y, m, d) * SecondsPerDay + hh * 3600 + mm * 60
        z      == ZoneLookup(loc, unix)
        utc    == unix - z.offset
        offset == IF z.offset # 0 /\ (utc < z.start \/ utc >= z.end)
                  THEN ZoneLookup(loc, utc).offset
                  ELSE z.offset
    IN  unix - offset

\* line 93
TodayAt(now, hour, minute, loc) ==
    LET date == LocalDate(now, loc)
    IN  GoDate(date[1], date[2], date[3], hour, minute, loc)

\* nextRunTime with !now.Before(today) in the place of now.After(today)
nextRunTime_NotBefore(now, hour, minute, loc) ==
    LET today == TodayAt(now, hour, minute, loc)
    IN  IF now >= today THEN today + 24 * 3600 ELSE today

\* lines 91-99
nextRunTime(now, hour, minute, loc) ==
    LET today == TodayAt(now, hour, minute, loc)
    IN  IF now > today THEN today + 24 * 3600 ELSE today

InitJob ==
    /\ InitOldIdle
    /\ InitRunsIdle
    /\ InitAppIdle
    /\ InitCfgIdle
    /\ \E scn \in JobScenarios :
          /\ jbLoc = scn[1]
          /\ jbNow \in JobClocks(scn)
    /\ jbHour \in JobHours
    /\ jbMinute \in JobMinutes
    /\ jbPc = "start"
    /\ jbAt = 0
    /\ jbNext = 0
    /\ jbSent = 0
    /\ jbCancelled = FALSE

\* lines 65-67
JobSchedule ==
    /\ jbPc = "start"
    /\ jbAt' = jbNow
    /\ jbNext' = nextRunTime(jbNow, jbHour, jbMinute, jbLoc)
    /\ jbPc' = "wait"
    /\ UNCHANGED <<exJobVars, jbLoc, jbHour, jbMinute, jbNow, jbSent, jbCancelled>>

\* ctx is cancelled
JobCancel ==
    /\ jbPc \in {"start", "wait"}
    /\ ~jbCancelled
    /\ jbCancelled' = TRUE
    /\ UNCHANGED <<exJobVars, jbLoc, jbHour, jbMinute, jbNow, jbPc, jbAt, jbNext, jbSent>>

\* lines 71-74
JobStop ==
    /\ jbPc = "wait"
    /\ jbCancelled
    /\ jbPc' = "stopped"
    /\ UNCHANGED <<exJobVars, jbLoc, jbHour, jbMinute, jbNow, jbAt, jbNext, jbSent,
                   jbCancelled>>

\* lines 75-85: the timer expires (at once when nextRun is not in the
\* future), the file is sent and the next run is computed
JobFire ==
    /\ jbPc = "wait"
    /\ jbSent < MaxSends
    /\ \E lag \in JobLags :
          LET now == (IF jbNext > jbNow THEN jbNext ELSE jbNow) + lag
          IN  /\ jbNow' = now
              /\ jbAt' = now
              /\ jbNext' = nextRunTime(now, jbHour, jbMinute, jbLoc)
    /\ jbSent' = jbSent + 1
    /\ UNCHANGED <<exJobVars, jbLoc, jbHour, jbMinute, jbPc, jbCancelled>>

NextJob == JobSchedule \/ JobCancel \/ JobStop \/ JobFire

JobSpec == InitJob /\ [][NextJob]_vars

(***************************************************************************)
(* C37                                                                     *)
(***************************************************************************)

\* nextRunTime has been called
Scheduled == jbPc \in {"wait", "stopped"}

\* today's instant at the configured hour and minute, for the clock reading
\* of the last call
TodayOfCall == TodayAt(jbAt, jbHour, jbMinute, jbLoc)

\* nextRunTime returned today's instant when the clock was not after it
\* and that instant plus 24 hours otherwise
ReturnsTodayOrTomorrow ==
    jbNext = IF jbAt > TodayOfCall THEN TodayOfCall + 24 * 3600 ELSE TodayOfCall

\* the offset of d.timezone is the same from the clock reading to a day
\* after the returned time
NoOffsetChange ==
    ZoneLookup(jbLoc, jbAt - SecondsPerDay).offset
        = ZoneLookup(jbLoc, jbNext + SecondsPerDay).offset

\* C37 as stated: nextRunTime returns today's instant at the configured
\* hour and minute when the current time is not after it, and otherwise
\* that instant plus 24 hours; the returned time is never earlier than the
\* current time and never more than 24 hours after it.
C37_NextRunWithinADay ==
    Scheduled =>
        /\ ReturnsTodayOrTomorrow
        /\ jbNext >= jbAt
        /\ jbNext <= jbAt + 24 * 3600

\* C37, amended: nextRunTime returns today's instant at the configured
\* hour and minute when the current time is not after it, and otherwise
\* that instant plus 24 hours; the returned time is never earlier than the
\* current time; it is at most 24 hours after it when the offset of the
\* zone does not change around that day, and at most 25 hours otherwise.
C37_NextRunWithinADayInFixedZone ==
    Scheduled =>
        /\ ReturnsTodayOrTomorrow
        /\ jbNext >= jbAt
        /\ NoOffsetChange => jbNext <= jbAt + 24 * 3600
        /\ jbNext <= jbAt + 25 * 3600

\* in Moscow, read one second after 23:50 with the job set to 23:50:
\* tomorrow's 23:50, one second less than 24 hours away
C37_Witness ==
    /\ Scheduled
    /\ jbLoc = LocMoscow
    /\ jbHour = 23 /\ jbMinute = 50
    /\ jbAt = TodayOfCall + 1
    /\ jbNext = jbAt + 24 * 3600 - 1
    /\ jbSent = 0

====
